---- MODULE Spec2Model ----
(***************************************************************************)
(* Verification model of the quant_intel_backend analytics core:           *)
(*   - market_storm.storm_probability            (tail-loss estimate)      *)
(*   - liquidity_drought.predict_liquidity_drought                         *)
(*   - pattern_recognition.detect_pump_and_dump                            *)
(*   - portfolio_stress.run_full_stress_test                               *)
(*   - data_manager.fetch_stock_data behind core.decorators.robust_service *)
(*   - resources.advanced_analytics.ComprehensiveAnalysisResource.get      *)
(*   - market_weather.compute_market_weather and its risk-model stage,     *)
(*     liquidity_vacuum, sentiment_velocity, danger_zones                  *)
(*   - stress_propagation.analyze_stress_propagation                       *)
(*   - pattern_recognition.analyze_manipulation_patterns                   *)
(*   - resources.market.MarketWeatherResource.get with its cache           *)
(*   - execution.engine.ExecutionEngine.execute_signal                     *)
(*                                                                         *)
(* Every component has its own variables and its own specification; the    *)
(* variables of the other components stay at their idle value.             *)
(*                                                                         *)
(* Numbers.  Python floats are modelled in fixed point: a value is a       *)
(* record [nan, v] where v counts thousandths ("milli") unless a comment   *)
(* says otherwise, and nan marks IEEE NaN.  Quantities whose exact value   *)
(* decides a claim (portfolio weights, losses, drawdowns) are exact        *)
(* rationals [n, d] instead.                                               *)
(***************************************************************************)
EXTENDS Integers, Sequences, FiniteSets, TLC

VARIABLES
    \* market_storm.storm_probability
    prices, loss_threshold_pct, horizon_bars, stormPc, stormOut,
    \* liquidity_drought.predict_liquidity_drought
    df, droughtPc, droughtOut,
    \* pattern_recognition.detect_pump_and_dump
    pdDf, pdPc, pdOut,
    \* portfolio_stress.run_full_stress_test
    symbols, weights, portfolio_value, dataAvail, stressPc, stressOut,
    \* data_manager.fetch_stock_data
    attempt, attemptLog, sleeps, fetchPc, fetchResult,
    \* advanced_analytics.ComprehensiveAnalysisResource.get
    caPc, caOutcome, analyses, comprehensive_result,
    \* data_manager.fetch_stock_data, step 4 (missing values)
    rawCols, fillPc, filledCols,
    \* market_weather / regime_engine.compute_market_weather and
    \* danger_zones.compute_danger_zones
    ohlcv, mwPc, mwOut, rePc, reOut, dzPc, dzOut,
    \* liquidity_vacuum.liquidity_vacuum_score
    last_volumes, bid_ask_spread_proxy, lvPc, lvOut,
    \* sentiment_velocity.analyze_sentiment_velocity, run by two request
    \* threads, and numpy's process-wide generator
    svCloses, np_random, svPc, svEntry, sentiment_data, svOut,
    \* stress_propagation.analyze_stress_propagation
    spTarget, spRefs, spPc, spOut,
    \* pattern_recognition.analyze_manipulation_patterns
    mpDf, mpPc, mpOut,
    \* resources.market.MarketWeatherResource.get and the cache in front
    cacheStore, now, hasPersist, persisted, computations, mwRequest, mwResponse,
    \* a function behind core.decorators.robust_service
    wrapFunc, wrapPc, wrapOut,
    \* execution.engine.ExecutionEngine and its broker
    positions, exPc, exSignal, exLocal, exResult, orders, filled, calls

stormVars   == <<prices, loss_threshold_pct, horizon_bars, stormPc, stormOut>>
droughtVars == <<df, droughtPc, droughtOut>>
pumpVars    == <<pdDf, pdPc, pdOut>>
stressVars  == <<symbols, weights, portfolio_value, dataAvail, stressPc, stressOut>>
fetchVars   == <<attempt, attemptLog, sleeps, fetchPc, fetchResult>>
caVars      == <<caPc, caOutcome, analyses, comprehensive_result>>
fillVars    == <<rawCols, fillPc, filledCols>>
weatherVars == <<ohlcv, mwPc, mwOut, rePc, reOut, dzPc, dzOut>>
vacuumVars  == <<last_volumes, bid_ask_spread_proxy, lvPc, lvOut>>
coreVars    == <<stormVars, droughtVars, pumpVars, stressVars, fetchVars, caVars>>
sentimentVars == <<svCloses, np_random, svPc, svEntry, sentiment_data, svOut>>
indicatorVars == <<fillVars, weatherVars, vacuumVars, sentimentVars>>
propVars    == <<spTarget, spRefs, spPc, spOut>>
manipVars   == <<mpDf, mpPc, mpOut>>
cacheVars   == <<cacheStore, now, hasPersist, persisted, computations, mwRequest, mwResponse>>
wrapVars    == <<wrapFunc, wrapPc, wrapOut>>
engineVars  == <<positions, exPc, exSignal, exLocal, exResult, orders, filled, calls>>
serviceVars == <<propVars, manipVars, cacheVars, wrapVars, engineVars>>
vars        == <<coreVars, indicatorVars, serviceVars>>

StormIdle ==
    /\ prices = <<>> /\ loss_threshold_pct = 0 /\ horizon_bars = 0
    /\ stormPc = "idle" /\ stormOut = "none"
DroughtIdle ==
    df = <<>> /\ droughtPc = "idle" /\ droughtOut = "none"
PumpIdle ==
    pdDf = <<>> /\ pdPc = "idle" /\ pdOut = "none"
StressIdle ==
    /\ symbols = <<>> /\ weights = <<>> /\ portfolio_value = 0
    /\ dataAvail = <<>> /\ stressPc = "idle" /\ stressOut = "none"
FetchIdle ==
    /\ attempt = 0 /\ attemptLog = <<>> /\ sleeps = <<>>
    /\ fetchPc = "idle" /\ fetchResult = "none"
CaIdle ==
    /\ caPc = "idle" /\ caOutcome = "none" /\ analyses = "none"
    /\ comprehensive_result = "none"
FillIdle ==
    rawCols = <<>> /\ fillPc = "idle" /\ filledCols = <<>>
WeatherIdle ==
    /\ ohlcv = <<>> /\ mwPc = "idle" /\ mwOut = "none"
    /\ rePc = "idle" /\ reOut = "none" /\ dzPc = "idle" /\ dzOut = "none"
VacuumIdle ==
    /\ last_volumes = <<>> /\ bid_ask_spread_proxy = "None"
    /\ lvPc = "idle" /\ lvOut = "none"
CoreIdle ==
    StormIdle /\ DroughtIdle /\ PumpIdle /\ StressIdle /\ FetchIdle /\ CaIdle
SentimentIdle ==
    /\ svCloses = <<>> /\ np_random = 0 /\ svPc = <<>> /\ svEntry = <<>>
    /\ sentiment_data = <<>> /\ svOut = <<>>
IndicatorsIdle == FillIdle /\ WeatherIdle /\ VacuumIdle /\ SentimentIdle
PropIdle ==
    spTarget = <<>> /\ spRefs = <<>> /\ spPc = "idle" /\ spOut = "none"
ManipIdle ==
    mpDf = <<>> /\ mpPc = "idle" /\ mpOut = "none"
CacheIdle ==
    /\ cacheStore = <<>> /\ now = 0 /\ hasPersist = FALSE /\ persisted = <<>>
    /\ computations = <<>> /\ mwRequest = "none" /\ mwResponse = "none"
WrapIdle ==
    wrapFunc = "none" /\ wrapPc = "idle" /\ wrapOut = "none"
EngineIdle ==
    /\ positions = <<>> /\ exPc = <<>> /\ exSignal = <<>> /\ exLocal = <<>>
    /\ exResult = <<>> /\ orders = 0 /\ filled = <<>> /\ calls = 0
ServicesIdle == PropIdle /\ ManipIdle /\ CacheIdle /\ WrapIdle /\ EngineIdle

----------------------------------------------------------------------------
(* Fixed-point floats with NaN.                                            *)

Num(x) == [nan |-> FALSE, v |-> x]
NaN == [nan |-> TRUE, v |-> 0]

\* IEEE comparison: every comparison with NaN is false.
FLt(a, b) == ~a.nan /\ ~b.nan /\ a.v < b.v
FGt(a, b) == FLt(b, a)

\* Python's builtin min(a, b) / max(a, b): the first argument is kept unless
\* the second compares strictly smaller / larger, so min(1, nan) = 1 and
\* min(nan, 1) = nan.
PyMin(a, b) == IF FLt(b, a) THEN b ELSE a
PyMax(a, b) == IF FGt(b, a) THEN b ELSE a

\* a + b and a * k / d (k, d integers), NaN-propagating.
FAdd(a, b) == IF a.nan \/ b.nan THEN NaN ELSE Num(a.v + b.v)
FScale(a, k, d) == IF a.nan THEN NaN ELSE Num((a.v * k) \div d)

Abs(x) == IF x < 0 THEN -x ELSE x
Min2(a, b) == IF a < b THEN a ELSE b
Max2(a, b) == IF a > b THEN a ELSE b

RECURSIVE SqrtIter(_, _)
SqrtIter(n, x) ==
    LET y == (x + n \div x) \div 2
    IN  IF y >= x THEN x ELSE SqrtIter(n, y)
\* floor(sqrt(n)), n >= 0
ISqrt(n) == IF n = 0 THEN 0 ELSE SqrtIter(n, n)

RECURSIVE SumSeq(_)
SumSeq(s) == IF s = <<>> THEN 0 ELSE Head(s) + SumSeq(Tail(s))

\* s[-k:] and s[:k] of Python / DataFrame.tail(k), .head(k)
TailN(s, k) == IF Len(s) <= k THEN s ELSE SubSeq(s, Len(s) - k + 1, Len(s))
HeadN(s, k) == IF Len(s) <= k THEN s ELSE SubSeq(s, 1, k)

Repeat(x, k) == [i \in 1..k |-> x]

----------------------------------------------------------------------------
(* market_storm.py                                                         *)

\* Bounds of the price series handed to storm_probability.
MaxPad == 14

\* The test scenario of tests/test_novel_features.py::test_storm.
ScenarioPrices == <<100, 99, 97, 95, 90, 85, 80, 70>>

\* np.log on the prices of the model, in thousandths.
LnMilli(p) ==
    CASE p = 100 -> 4605 [] p = 99 -> 4595 [] p = 97 -> 4575 [] p = 95 -> 4554
      [] p = 90 -> 4500  [] p = 85 -> 4443 [] p = 80 -> 4382 [] p = 70 -> 4248

\* np.log(1 - loss_threshold_pct), in thousandths; the threshold in percent.
Ln1mMilli(t) ==
    CASE t = 1 -> -10 [] t = 5 -> -51 [] t = 10 -> -105 [] t = 50 -> -693

\* returns_from_prices: np.diff(np.log(p)); empty below two prices.
returns_from_prices(p) ==
    IF Len(p) < 2 THEN <<>>
    ELSE [i \in 1..(Len(p) - 1) |-> LnMilli(p[i + 1]) - LnMilli(p[i])]

\* Number of returns strictly below log(1 - t): r < log(1-t) iff
\* p[i+1]/p[i] < 1 - t, decided exactly on the prices.
CountBelow(p, t) ==
    Cardinality({i \in 1..(Len(p) - 1) : p[i + 1] * 100 < p[i] * (100 - t)})

\* scipy.stats.norm.cdf on z (in thousandths), to half-sigma resolution.
NormCdfMilli(z) ==
    CASE z < -3500 -> 0    [] z >= -3500 /\ z < -3000 -> 0
      [] z >= -3000 /\ z < -2500 -> 1   [] z >= -2500 /\ z < -2000 -> 6
      [] z >= -2000 /\ z < -1500 -> 23  [] z >= -1500 /\ z < -1000 -> 67
      [] z >= -1000 /\ z < -500 -> 159  [] z >= -500 /\ z < 0 -> 309
      [] z >= 0 /\ z < 500 -> 500       [] z >= 500 /\ z < 1000 -> 691
      [] z >= 1000 /\ z < 1500 -> 841   [] z >= 1500 /\ z < 2000 -> 933
      [] z >= 2000 /\ z < 2500 -> 977   [] z >= 2500 /\ z < 3000 -> 994
      [] z >= 3000 /\ z < 3500 -> 999   [] z >= 3500 -> 1000

\* np.mean of a boolean array with `count` true entries out of n; the mean of
\* an empty array is NaN.
MeanOfFlags(count, n) == IF n = 0 THEN NaN ELSE Num((count * 1000) \div n)

\* The Normal branch: z = (log(1-t) - h*mu) / (sqrt(h)*sigma) with
\* mu = S/n, sigma = sqrt(n*Q - S^2)/n (1e-6 when that is 0), so that
\* z = (n*L - h*S) / sqrt(h*(n*Q - S^2)).
NormalBranch(r, t, h) ==
    LET n == Len(r)
        S == SumSeq(r)
        Q == SumSeq([i \in 1..n |-> r[i] * r[i]])
        D == n * Q - S * S
        top == n * Ln1mMilli(t) - h * S
        z == IF D = 0
             THEN (IF top < 0 THEN -1000000 ELSE IF top > 0 THEN 1000000 ELSE 0)
             ELSE (top * 1000) \div Max2(1, ISqrt(h * D))
    IN  PyMax(Num(0), PyMin(Num(1000), Num(NormCdfMilli(z))))

\* tail_probability_loss(returns, loss_threshold_pct, horizon_bars)
tail_probability_loss(p, r, t, h) ==
    IF Len(r) < 20
    THEN MeanOfFlags(CountBelow(p, t), Len(r))
    ELSE NormalBranch(r, t, h)

storm_probability(p, t, h) ==
    [storm_probability |-> tail_probability_loss(p, returns_from_prices(p), t, h),
     loss_threshold |-> t, horizon |-> h]

\* Price series of the model: a run of k bars that alternate between two
\* levels (or stay on one), followed by a prefix of the scenario.
PadSeries(k, a, b) == [i \in 1..k |-> IF i % 2 = 1 THEN a ELSE b]
StormInputs ==
    {PadSeries(k, lv[1], lv[2]) \o HeadN(ScenarioPrices, m) :
        k \in 0..MaxPad, m \in 0..Len(ScenarioPrices),
        lv \in {<<100, 100>>, <<100, 99>>, <<90, 100>>}}

StormInit ==
    /\ prices \in StormInputs
    /\ loss_threshold_pct \in {5, 50}
    /\ horizon_bars \in {1, 3}
    /\ stormPc = "call"
    /\ stormOut = "none"

StormCall ==
    /\ stormPc = "call"
    /\ stormOut' = storm_probability(prices, loss_threshold_pct, horizon_bars)
    /\ stormPc' = "done"
    /\ UNCHANGED <<prices, loss_threshold_pct, horizon_bars>>
    /\ UNCHANGED <<droughtVars, pumpVars, stressVars, fetchVars, caVars, indicatorVars, serviceVars>>

InitStorm ==
    StormInit /\ DroughtIdle /\ PumpIdle /\ StressIdle /\ FetchIdle /\ CaIdle /\ IndicatorsIdle /\ ServicesIdle
NextStorm == StormCall
SpecStorm == InitStorm /\ [][NextStorm]_vars

\* C5: storm_probability lies in [0,1] and is never NaN, for every price list
\* (empty, single price, constant, short and long), threshold and horizon.
C5_StormBounded ==
    stormPc = "done" =>
        /\ ~stormOut.storm_probability.nan
        /\ stormOut.storm_probability.v >= 0
        /\ stormOut.storm_probability.v <= 1000

\* Both branches are exercised and, when a value exists, it is in range.
StormInRangeWhenDefined ==
    stormPc = "done" /\ ~stormOut.storm_probability.nan =>
        stormOut.storm_probability.v \in 0..1000
StormNormalBranchReached ==
    stormPc = "done" /\ Len(prices) > 20 /\ stormOut.storm_probability.v \in 1..999

----------------------------------------------------------------------------
(* liquidity_drought.py                                                    *)
(* A bar is [open, high, low, close, volume]; df is the sequence of bars   *)
(* _fetch_ohlcv returned, <<>> standing for None or an empty frame.        *)

\* Longest series handed to predict_liquidity_drought.
MaxBars == 15

Bar(o, h, l, c, v) == [open |-> o, high |-> h, low |-> l, close |-> c, volume |-> v]
BarKinds ==
    {Bar(100, 101, 99, 100, 1000),     \* calm, liquid
     Bar(100, 101, 99, 100, 0),        \* no volume at all
     Bar(100, 101, 99, 100, 10),       \* thin volume
     Bar(110, 112, 108, 110, 1000)}    \* opens 10% away from the calm close

\* m bars of kind a followed by bars of kind b, or a and b alternating.
SegSeries(n, m, a, b) == [i \in 1..n |-> IF i <= m THEN a ELSE b]
AltSeries(n, a, b) == [i \in 1..n |-> IF i % 2 = 1 THEN a ELSE b]
DroughtInputs ==
    {SegSeries(n, m, a, b) : n \in 0..MaxBars, m \in 0..MaxBars, a \in BarKinds, b \in BarKinds}
    \cup {AltSeries(n, a, b) : n \in 0..MaxBars, a \in BarKinds, b \in BarKinds}

Column(d, name) == [i \in 1..Len(d) |-> d[i][name]]

\* np.log(volume + 1) in thousandths, on the volumes of the model.
LnVolMilli(v) == CASE v = 0 -> 0 [] v = 10 -> 2398 [] v = 1000 -> 6909

\* calculate_volume_decay_rate(volumes, window=10): minus the regression
\* slope of log(volume+1) on the bar index.  np.corrcoef divides by the
\* standard deviation of y: a constant y makes it NaN, and so the slope.
calculate_volume_decay_rate(volumes) ==
    LET window == 10 IN
    IF Len(volumes) < window THEN Num(0)
    ELSE
        LET recent == TailN(volumes, window)
            n == Len(recent)
            y == [i \in 1..n |-> LnVolMilli(recent[i])]
            Sx == SumSeq([i \in 1..n |-> i - 1])
            Sxx == SumSeq([i \in 1..n |-> (i - 1) * (i - 1)])
            Sy == SumSeq(y)
            Sxy == SumSeq([i \in 1..n |-> (i - 1) * y[i]])
            stdYZero == \A i \in 1..n : y[i] = y[1]
        IN  IF n < 2 THEN Num(0)
            ELSE IF n * Sxx - Sx * Sx = 0 THEN Num(0)
            ELSE IF stdYZero THEN NaN
            ELSE Num(-((n * Sxy - Sx * Sy) \div (n * Sxx - Sx * Sx)))

RECURSIVE InsertSorted(_, _)
InsertSorted(s, x) ==
    IF s = <<>> THEN <<x>>
    ELSE IF x <= Head(s) THEN <<x>> \o s
    ELSE <<Head(s)>> \o InsertSorted(Tail(s), x)
RECURSIVE SortAsc(_)
\* np.sort
SortAsc(s) == IF s = <<>> THEN <<>> ELSE InsertSorted(SortAsc(Tail(s)), Head(s))

\* calculate_volume_concentration(df, window=20): Gini coefficient of the
\* last 20 volumes, clamped to [0,1]; 0 for no volume.  There is no
\* minimum length.
calculate_volume_concentration(d) ==
    LET volumes == TailN(Column(d, "volume"), 20)
        sorted_v == SortAsc(volumes)
        n == Len(sorted_v)
        total == SumSeq(sorted_v)
        weighted == SumSeq([i \in 1..n |-> i * sorted_v[i]])
    IN  IF n = 0 \/ total = 0 THEN Num(0)
        ELSE PyMax(Num(0), PyMin(Num(1000),
                Num(((2 * weighted - (n + 1) * total) * 1000) \div (n * total))))

\* pct_change().dropna() of a column, in 1e-4 units.
PctChangeBp(c) ==
    IF Len(c) < 2 THEN <<>>
    ELSE [i \in 1..(Len(c) - 1) |-> ((c[i + 1] - c[i]) * 10000) \div c[i]]

\* Series.std() (ddof = 1) in the unit of its argument.
SampleStd(r) ==
    LET n == Len(r)
        S == SumSeq(r)
        Q == SumSeq([i \in 1..n |-> r[i] * r[i]])
    IN  IF n < 2 THEN 0 ELSE ISqrt((n * Q - S * S) \div (n * (n - 1)))

\* calculate_volatility_volume_ratio(df, window=14)
calculate_volatility_volume_ratio(d) ==
    LET window == 14 IN
    IF Len(d) < window THEN Num(0)
    ELSE
        LET recent == TailN(d, window)
            returns == PctChangeBp(Column(recent, "close"))
            volatility == SampleStd(returns)
            sumVolume == SumSeq(Column(recent, "volume"))
            price == recent[Len(recent)].close
            \* normalized_volume / 1e6 + 0.001, in millionths
            denMicro == (IF price > 0 THEN sumVolume \div (window * price)
                         ELSE sumVolume \div window) + 1000
        IN  IF returns = <<>> THEN Num(0)
            ELSE IF sumVolume = 0 THEN Num(1000)
            ELSE PyMin(Num(1000), Num((volatility * 100000) \div denMicro))

\* calculate_price_gap_frequency(df, threshold=0.02)
calculate_price_gap_frequency(d) ==
    IF Len(d) < 2 THEN Num(0)
    ELSE
        LET n == Len(d) - 1
            gap_count == Cardinality({i \in 1..n :
                Abs(d[i + 1].open - d[i].close) * 50000 > d[i].close * 1000 + 1})
        IN  Num((gap_count * 1000) \div n)

\* calculate_spread_proxy(df, window=14)
calculate_spread_proxy(d) ==
    LET window == 14 IN
    IF Len(d) < window THEN Num(0)
    ELSE
        LET recent == TailN(d, window)
        IN  Num(SumSeq([i \in 1..Len(recent) |->
                ((recent[i].high - recent[i].low) * 1000) \div recent[i].close])
                \div Len(recent))

RiskLevel(p) ==
    IF FGt(p, Num(700)) THEN "CRITICAL"
    ELSE IF FGt(p, Num(500)) THEN "HIGH"
    ELSE IF FGt(p, Num(300)) THEN "MODERATE"
    ELSE "LOW"

\* volume_trend: mean of the last 5 volumes against the mean of the 15 before
VolumeTrend(d) ==
    LET v == Column(d, "volume")
        rec == TailN(v, 5)
        old == HeadN(TailN(v, 20), 15)
        \* recent_avg < older_avg * 0.7, cross-multiplied
        lhs == 10 * SumSeq(rec) * Len(old)
    IN  IF lhs < 7 * SumSeq(old) * Len(rec) THEN "DECLINING"
        ELSE IF lhs > 13 * SumSeq(old) * Len(rec) THEN "INCREASING"
        ELSE "STABLE"

\* Result.Ok / Result.Fail of core/result.py
Ok(x) == [success |-> TRUE, value |-> x, error |-> "None"]
Fail(e) == [success |-> FALSE, value |-> "None", error |-> e]

\* The body of predict_liquidity_drought; robust_service passes the Result
\* it returns through.
predict_liquidity_drought(d) ==
    IF d = <<>> THEN Fail("Missing data")
    ELSE
        LET decay_rate == calculate_volume_decay_rate(Column(d, "volume"))
            concentration == calculate_volume_concentration(d)
            vol_ratio == calculate_volatility_volume_ratio(d)
            gap_freq == calculate_price_gap_frequency(d)
            spread_proxy == calculate_spread_proxy(d)
            spread_norm == PyMin(Num(1000), FScale(spread_proxy, 20, 1))
            raw == FAdd(FScale(decay_rate, 25, 100),
                   FAdd(FScale(concentration, 15, 100),
                   FAdd(FScale(vol_ratio, 25, 100),
                   FAdd(FScale(gap_freq, 20, 100),
                        FScale(spread_norm, 15, 100)))))
            drought_probability == PyMax(Num(0), PyMin(Num(1000), raw))
        IN  Ok([price |-> d[Len(d)].close,
                drought_probability |-> drought_probability,
                risk_level |-> RiskLevel(drought_probability),
                components |->
                    [volume_decay_rate |-> decay_rate,
                     volume_concentration |-> concentration,
                     volatility_volume_ratio |-> vol_ratio,
                     gap_frequency |-> gap_freq,
                     spread_proxy |-> spread_proxy],
                volume_trend |-> VolumeTrend(d),
                current_volume |-> d[Len(d)].volume])

DroughtInit ==
    /\ df \in DroughtInputs
    /\ droughtPc = "call"
    /\ droughtOut = "none"

DroughtCall ==
    /\ droughtPc = "call"
    /\ droughtOut' = predict_liquidity_drought(df)
    /\ droughtPc' = "done"
    /\ UNCHANGED df
    /\ UNCHANGED <<stormVars, pumpVars, stressVars, fetchVars, caVars, indicatorVars, serviceVars>>

InitDrought ==
    DroughtInit /\ StormIdle /\ PumpIdle /\ StressIdle /\ FetchIdle /\ CaIdle /\ IndicatorsIdle /\ ServicesIdle
NextDrought == DroughtCall
SpecDrought == InitDrought /\ [][NextDrought]_vars

ComponentNames ==
    {"volume_decay_rate", "volume_concentration", "volatility_volume_ratio",
     "gap_frequency", "spread_proxy"}

\* The regression of the decay rate is undefined: the last 10 volumes are equal.
DecayUndefined(d) ==
    /\ Len(d) >= 10
    /\ \A i \in (Len(d) - 9)..Len(d) : d[i].volume = d[Len(d)].volume

\* C6: for every non-empty series the drought probability is in [0,1], no
\* component score is NaN, and a component that cannot be computed is 0 (it
\* does not raise the probability).
C6_DroughtFinite ==
    droughtPc = "done" /\ df # <<>> =>
        /\ droughtOut.success
        /\ ~droughtOut.value.drought_probability.nan
        /\ droughtOut.value.drought_probability.v \in 0..1000
        /\ \A c \in ComponentNames : ~droughtOut.value.components[c].nan
        /\ DecayUndefined(df) => droughtOut.value.components.volume_decay_rate = Num(0)

\* C7: a 2-bar series yields a successful result with every component score
\* at 0.0 and risk level LOW.
C7_TwoBarDefaults ==
    droughtPc = "done" /\ Len(df) = 2 =>
        /\ droughtOut.success
        /\ \A c \in ComponentNames : droughtOut.value.components[c] = Num(0)
        /\ droughtOut.value.risk_level = "LOW"

\* What does hold for 2 bars: success and risk level LOW.
TwoBarLow ==
    droughtPc = "done" /\ Len(df) = 2 =>
        droughtOut.success /\ droughtOut.value.risk_level = "LOW"

----------------------------------------------------------------------------
(* pattern_recognition.py: detect_pump_and_dump                            *)
(* Prices are in hundredths (10000 = 100.00).                              *)

\* Most flat bars put in front of the 15-bar scenario.
MaxLead == 8

FlatBar == Bar(10000, 10000, 10000, 10000, 1000)

\* "intrabar": 10 flat bars, then 5 bars closing `rise` percent higher in
\* equal steps on volMult times the volume, the third of them with a high
\* from which the last close is `retr` percent down.
\* "sequel": 5 flat bars, 5 bars rising `rise` percent on volMult times the
\* volume, then 5 bars falling `retr` percent from the peak on normal volume.
\* Both are 15 bars, preceded by `lead` more flat bars.
PumpSeries(lead, rise, retr, volMult, style) ==
    LET last == 10000 + rise * 100
        peak == (last * 100) \div (100 - retr)
        up == [i \in 1..5 |->
                LET c == 10000 + (i * rise * 100) \div 5
                    h == IF style = "intrabar" /\ i = 3 THEN Max2(peak, c) ELSE c
                IN  Bar(c, h, c, c, volMult * 1000)]
        down == [i \in 1..5 |->
                LET c == last - (i * retr * last) \div 500
                IN  Bar(c, c, c, c, 1000)]
    IN  IF style = "intrabar"
        THEN Repeat(FlatBar, lead + 10) \o up
        ELSE Repeat(FlatBar, lead + 5) \o up \o down

PumpInputs ==
    {PumpSeries(lead, rise, retr, vm, style) :
        lead \in 0..MaxLead, rise \in {5, 15, 40}, retr \in {5, 12},
        vm \in {1, 3, 4}, style \in {"intrabar", "sequel"}}

NotDetected == [detected |-> FALSE, confidence |-> Num(0), window_days |-> 0, phase |-> "none"]

SeqMax(s) == CHOOSE x \in {s[i] : i \in 1..Len(s)} : \A i \in 1..Len(s) : s[i] <= x

\* The length guard of detect_pump_and_dump.
TooShort_Short(d) == Len(d) < 10
TooShort(d) == Len(d) < 20

\* One iteration of `for window in windows`: the result when the signature
\* matches in this window, NotDetected otherwise (also on `continue`).
PumpWindow(d, window) ==
    LET recent == TailN(d, window)
        older == HeadN(TailN(d, window * 2), window)
    IN  IF Len(recent) < window \/ Len(older) < window THEN NotDetected
        ELSE
            LET current_price == recent[Len(recent)].close
                older_close == older[Len(older)].close
                max_price == SeqMax(Column(recent, "high"))
                volume_pump == SumSeq(Column(recent, "volume"))
                volume_before == SumSeq(Column(older, "volume"))
                \* thresholds decided exactly, the reported numbers in thousandths
                price_change == ((current_price - older_close) * 1000) \div older_close
                drawdown_from_max == ((max_price - current_price) * 1000) \div max_price
                volume_spike == IF volume_before > 0
                                THEN (volume_pump * 1000) \div volume_before ELSE 1000
                rose == (current_price - older_close) * 10 > older_close
                retraced == (max_price - current_price) * 10 > max_price
                spiked == volume_before > 0 /\ volume_pump > 2 * volume_before
            IN  IF rose /\ retraced /\ spiked
                THEN [detected |-> TRUE,
                      confidence |-> PyMin(Num(1000),
                          Num((price_change + drawdown_from_max
                               + ((volume_spike - 1000) * 2) \div 10) \div 3)),
                      window_days |-> window,
                      phase |-> IF 2 * drawdown_from_max > price_change
                                THEN "DUMP" ELSE "POST_PUMP"]
                ELSE NotDetected

detect_pump_and_dump(d) ==
    IF TooShort(d) THEN NotDetected
    ELSE IF PumpWindow(d, 5).detected THEN PumpWindow(d, 5)
    ELSE IF PumpWindow(d, 10).detected THEN PumpWindow(d, 10)
    ELSE PumpWindow(d, 15)

PumpInit ==
    /\ pdDf \in PumpInputs
    /\ pdPc = "call"
    /\ pdOut = "none"

PumpCall ==
    /\ pdPc = "call"
    /\ pdOut' = detect_pump_and_dump(pdDf)
    /\ pdPc' = "done"
    /\ UNCHANGED pdDf
    /\ UNCHANGED <<stormVars, droughtVars, stressVars, fetchVars, caVars, indicatorVars, serviceVars>>

InitPump ==
    PumpInit /\ StormIdle /\ DroughtIdle /\ StressIdle /\ FetchIdle /\ CaIdle /\ IndicatorsIdle /\ ServicesIdle
NextPump == PumpCall
SpecPump == InitPump /\ [][NextPump]_vars

\* The scenario: closes 15% up over the last 5 bars on 3x the prior volume,
\* the last close 12% below the peak high of those bars.
PumpScenario(lead) == PumpSeries(lead, 15, 12, 3, "intrabar")

\* C8 as stated: the 15-bar scenario is detected with confidence > 0.
C8_Scenario15Detected ==
    pdPc = "done" /\ pdDf = PumpScenario(0) =>
        pdOut.detected /\ pdOut.confidence.v > 0

\* C8 as amended: the scenario is detected (confidence > 0, in the 5-bar
\* window) once the series has at least 20 bars, i.e. with 5 or more further
\* bars at the prior level in front; the bare 15-bar scenario, like every
\* series of fewer than 20 bars, returns detected = false, confidence 0.
C8_ScenarioDetectedFrom20Bars ==
    pdPc = "done" =>
        /\ Len(pdDf) < 20 => pdOut = NotDetected
        /\ \A lead \in 5..(MaxLead + 1) :
                pdDf = PumpScenario(lead) =>
                    /\ pdOut.detected
                    /\ pdOut.confidence.v > 0 /\ ~pdOut.confidence.nan
                    /\ pdOut.window_days = 5

C8_Witness ==
    /\ pdPc = "done"
    /\ pdDf = PumpScenario(5)
    /\ Len(pdDf) = 20
    /\ pdOut.detected

----------------------------------------------------------------------------
(* portfolio_stress.py                                                     *)
(* Weights, values, losses and drawdowns are exact rationals [n, d], d > 0, *)
(* in lowest terms.                                                        *)

RECURSIVE Gcd(_, _)
Gcd(a, b) == IF b = 0 THEN a ELSE Gcd(b, a % b)

Rat(n, d) ==
    LET g == Gcd(Abs(n), Abs(d))
        s == IF d < 0 THEN -1 ELSE 1
    IN  [n |-> (s * n) \div g, d |-> (s * d) \div g]
RInt(k) == [n |-> k, d |-> 1]
RAdd(a, b) == Rat(a.n * b.d + b.n * a.d, a.d * b.d)
RSub(a, b) == Rat(a.n * b.d - b.n * a.d, a.d * b.d)
RMul(a, b) == Rat(a.n * b.n, a.d * b.d)
RDiv(a, b) == Rat(a.n * b.d, a.d * b.n)
RLt(a, b) == a.n * b.d < b.n * a.d
RAbs(a) == [n |-> Abs(a.n), d |-> a.d]

RECURSIVE RSum(_)
RSum(s) == IF s = <<>> THEN RInt(0) ELSE RAdd(Head(s), RSum(Tail(s)))

\* Longest symbol list and largest raw weight handed to run_full_stress_test.
MaxSymbols == 2
MaxWeight == 2

\* HISTORICAL_CRISES, in the dict's insertion order.
HISTORICAL_CRISES ==
    <<[crisis_id |-> "2008_financial_crisis", nifty_drawdown |-> -61, recovery_months |-> 24],
      [crisis_id |-> "2011_eurozone_crisis",  nifty_drawdown |-> -28, recovery_months |-> 12],
      [crisis_id |-> "2015_china_crash",      nifty_drawdown |-> -23, recovery_months |-> 10],
      [crisis_id |-> "2016_demonetization",   nifty_drawdown |-> -8,  recovery_months |-> 2],
      [crisis_id |-> "2020_covid_crash",      nifty_drawdown |-> -38, recovery_months |-> 8],
      [crisis_id |-> "2022_russia_ukraine",   nifty_drawdown |-> -12, recovery_months |-> 4]>>

SensitivitySectors == {"banking", "it", "pharma", "metals", "auto", "fmcg"}

\* SECTOR_SENSITIVITY[sector].get(key) in tenths; 0 stands for "key absent".
SectorEntry(sector, key) ==
    CASE sector = "banking" ->
            (CASE key = "2008_financial_crisis" -> 15 [] key = "2020_covid_crash" -> 13
               [] key = "2016_demonetization" -> 14 [] key = "default" -> 10 [] OTHER -> 0)
      [] sector = "it" ->
            (CASE key = "2008_financial_crisis" -> 12 [] key = "2020_covid_crash" -> 7
               [] key = "default" -> 9 [] OTHER -> 0)
      [] sector = "pharma" ->
            (CASE key = "2020_covid_crash" -> 5 [] key = "default" -> 8 [] OTHER -> 0)
      [] sector = "metals" ->
            (CASE key = "2015_china_crash" -> 15 [] key = "2022_russia_ukraine" -> 13
               [] key = "default" -> 11 [] OTHER -> 0)
      [] sector = "auto" ->
            (CASE key = "2016_demonetization" -> 15 [] key = "2020_covid_crash" -> 14
               [] key = "default" -> 10 [] OTHER -> 0)
      [] sector = "fmcg" ->
            (CASE key = "default" -> 7 [] OTHER -> 0)

\* Symbols of the model; "tcs.ns" is TCS.NS as a caller may spell it.
SymbolUniverse == {"HDFCBANK.NS", "TCS.NS", "tcs.ns", "SUNPHARMA.NS", "RELIANCE.NS", "XYZ.NS"}

\* str.upper()
Upper(s) == IF s = "tcs.ns" THEN "TCS.NS" ELSE s

\* get_stock_sector: STOCK_SECTORS.get(symbol.upper(), "unknown")
get_stock_sector(symbol) ==
    LET u == Upper(symbol) IN
    CASE u = "HDFCBANK.NS" -> "banking"
      [] u = "TCS.NS" -> "it"
      [] u = "SUNPHARMA.NS" -> "pharma"
      [] u = "RELIANCE.NS" -> "conglomerate"
      [] OTHER -> "unknown"

\* The sensitivity multiplier of calculate_crisis_impact, in tenths:
\* sensitivity_map = SECTOR_SENSITIVITY.get(sector, SECTOR_SENSITIVITY.get("fmcg", {}))
\* sensitivity = sensitivity_map.get(crisis_id, sensitivity_map.get("default", 1.0))
Sensitivity(sector, crisis_id) ==
    LET mapSector == IF sector \in SensitivitySectors THEN sector ELSE "fmcg"
    IN  IF SectorEntry(mapSector, crisis_id) # 0 THEN SectorEntry(mapSector, crisis_id)
        ELSE IF SectorEntry(mapSector, "default") # 0 THEN SectorEntry(mapSector, "default")
        ELSE 10

\* calculate_crisis_impact(symbol, crisis_id, portfolio_value): value is the
\* holding's value, crisis a row of HISTORICAL_CRISES.
calculate_crisis_impact(symbol, crisis, value) ==
    LET sector == get_stock_sector(symbol)
        sensitivity == Sensitivity(sector, crisis.crisis_id)
        adjusted_drawdown == Rat(crisis.nifty_drawdown * sensitivity, 10)
        value_at_bottom ==
            RMul(value, RAdd(RInt(1), RDiv(adjusted_drawdown, RInt(100))))
        loss == RSub(value, value_at_bottom)
    IN  [sector |-> sector,
         sector_sensitivity |-> sensitivity,
         adjusted_drawdown_pct |-> adjusted_drawdown,
         estimated_bottom_value |-> value_at_bottom,
         estimated_loss |-> loss]

\* list.sort(key = portfolio_drawdown_pct): ascending and stable.
RECURSIVE InsertByDrawdown(_, _)
InsertByDrawdown(acc, x) ==
    IF acc = <<>> THEN <<x>>
    ELSE IF RLt(x.portfolio_drawdown_pct, Head(acc).portfolio_drawdown_pct)
         THEN <<x>> \o acc
    ELSE <<Head(acc)>> \o InsertByDrawdown(Tail(acc), x)
RECURSIVE SortByDrawdown(_)
SortByDrawdown(s) ==
    IF s = <<>> THEN <<>>
    ELSE InsertByDrawdown(SortByDrawdown(SubSeq(s, 1, Len(s) - 1)), s[Len(s)])

\* Subsequence of the positions of s that satisfy keep (a boolean sequence).
RECURSIVE Positions(_, _)
Positions(keep, i) ==
    IF i > Len(keep) THEN <<>>
    ELSE (IF keep[i] THEN <<i>> ELSE <<>>) \o Positions(keep, i + 1)

\* generate_portfolio_recommendations(crisis_results, holdings, concentration);
\* concentration is a rational.
generate_portfolio_recommendations(crisis_results, holdings, concentration) ==
    LET worst_drawdown == RAbs(crisis_results[1].portfolio_drawdown_pct)
        has_defensive ==
            \E i \in 1..Len(holdings) : holdings[i].sector \in {"pharma", "fmcg"}
        recs ==
            (IF RLt(RInt(40), worst_drawdown) THEN {"HIGH_RISK"} ELSE {})
            \cup (IF RLt(Rat(6, 10), concentration) THEN {"DIVERSIFY"} ELSE {})
            \cup (IF ~has_defensive THEN {"ADD_DEFENSIVES"} ELSE {})
            \cup (IF RLt(RInt(30), worst_drawdown) THEN {"MAINTAIN_CASH"} ELSE {})
    IN  IF recs = {} THEN {"REASONABLE"} ELSE recs

\* `return None` of run_full_stress_test
NoReport == [kind |-> "None"]

\* run_full_stress_test(symbols, weights, portfolio_value); avail[i] tells
\* whether _fetch_ohlcv returned data for symbols[i].
run_full_stress_test(syms, wts, pv, avail) ==
    IF syms = <<>> THEN NoReport
    ELSE
        LET n == Len(syms)
            raw == IF wts.omitted THEN [i \in 1..n |-> Rat(1, n)]
                   ELSE [i \in 1..n |-> RInt(wts.list[i])]
            total_weight == RSum(raw)
            norm == [i \in 1..n |-> RDiv(raw[i], total_weight)]
            kept == Positions(avail, 1)
            portfolio_holdings ==
                [k \in 1..Len(kept) |->
                    [symbol |-> syms[kept[k]],
                     weight |-> norm[kept[k]],
                     value |-> RMul(RInt(pv), norm[kept[k]]),
                     sector |-> get_stock_sector(syms[kept[k]])]]
            CrisisResult(crisis) ==
                LET losses == [k \in 1..Len(portfolio_holdings) |->
                        calculate_crisis_impact(portfolio_holdings[k].symbol, crisis,
                            portfolio_holdings[k].value).estimated_loss]
                    total_portfolio_loss == RSum(losses)
                IN  [crisis_id |-> crisis.crisis_id,
                     portfolio_drawdown_pct |->
                        RMul(RDiv(total_portfolio_loss, RInt(pv)), RInt(100)),
                     estimated_loss |-> total_portfolio_loss,
                     recovery_months |-> crisis.recovery_months]
            crisis_results ==
                SortByDrawdown([c \in 1..Len(HISTORICAL_CRISES) |->
                    CrisisResult(HISTORICAL_CRISES[c])])
            worst_case == crisis_results[1]
            sectors == {portfolio_holdings[k].sector : k \in 1..Len(portfolio_holdings)}
            SectorCount(s) ==
                Cardinality({k \in 1..Len(portfolio_holdings) : portfolio_holdings[k].sector = s})
            max_count == CHOOSE c \in {SectorCount(s) : s \in sectors} :
                            \A s \in sectors : SectorCount(s) <= c
            max_sector_concentration == Rat(max_count, Len(portfolio_holdings))
        IN  IF portfolio_holdings = <<>> THEN NoReport
            ELSE
                [kind |-> "report",
                 portfolio_value |-> pv,
                 holdings |-> portfolio_holdings,
                 stress_test_results |-> crisis_results,
                 risk_summary |->
                    [worst_case_scenario |-> worst_case.crisis_id,
                     worst_case_drawdown_pct |-> worst_case.portfolio_drawdown_pct,
                     worst_case_loss |-> worst_case.estimated_loss,
                     average_crisis_drawdown_pct |->
                        RDiv(RSum([c \in 1..Len(crisis_results) |->
                                crisis_results[c].portfolio_drawdown_pct]),
                             RInt(Len(crisis_results))),
                     max_recovery_months |->
                        SeqMax([c \in 1..Len(crisis_results) |->
                                crisis_results[c].recovery_months])],
                 max_concentration |-> max_sector_concentration,
                 concentrated |-> RLt(Rat(1, 2), max_sector_concentration),
                 recommendations |->
                    generate_portfolio_recommendations(
                        crisis_results, portfolio_holdings, max_sector_concentration)]

\* weights = None (the default)
WeightsOmitted == [omitted |-> TRUE, list |-> <<>>]

SeqsUpTo(S, k) == UNION {[1..m -> S] : m \in 0..k}

StressInit ==
    /\ symbols \in SeqsUpTo(SymbolUniverse, MaxSymbols)
    /\ weights \in {WeightsOmitted}
            \cup {[omitted |-> FALSE, list |-> w] : w \in [1..Len(symbols) -> 1..MaxWeight]}
    /\ portfolio_value \in {100000, 50000}
    /\ dataAvail \in [1..Len(symbols) -> BOOLEAN]
    /\ stressPc = "call"
    /\ stressOut = "none"

StressCall ==
    /\ stressPc = "call"
    /\ stressOut' = run_full_stress_test(symbols, weights, portfolio_value, dataAvail)
    /\ stressPc' = "done"
    /\ UNCHANGED <<symbols, weights, portfolio_value, dataAvail>>
    /\ UNCHANGED <<stormVars, droughtVars, pumpVars, fetchVars, caVars, indicatorVars, serviceVars>>

InitStress ==
    StressInit /\ StormIdle /\ DroughtIdle /\ PumpIdle /\ FetchIdle /\ CaIdle /\ IndicatorsIdle /\ ServicesIdle
NextStress == StressCall
SpecStress == InitStress /\ [][NextStress]_vars

StressReported == stressPc = "done" /\ stressOut.kind = "report"

\* C2: the reported holdings' weights sum to 1.0 and their values sum to
\* portfolio_value, whatever the weight scale and whichever symbols have data.
C2_WeightConservation ==
    StressReported =>
        LET h == stressOut.holdings IN
        /\ RSum([k \in 1..Len(h) |-> h[k].weight]) = RInt(1)
        /\ RSum([k \in 1..Len(h) |-> h[k].value]) = RInt(portfolio_value)

\* What the code does conserve: the weights before symbols without data
\* are dropped, i.e. the holdings' weights when every symbol has data.
WeightsConservedWhenAllAvailable ==
    StressReported /\ (\A i \in 1..Len(symbols) : dataAvail[i]) =>
        RSum([k \in 1..Len(stressOut.holdings) |-> stressOut.holdings[k].weight]) = RInt(1)

CrisisResultOf(id) ==
    LET r == stressOut.stress_test_results
    IN  r[CHOOSE c \in 1..Len(r) : r[c].crisis_id = id]

\* C3: one symbol of unknown sector, weights omitted, value 100000: every
\* crisis's portfolio_drawdown_pct equals that crisis's nifty_drawdown.
C3_SingleHoldingBaseDrawdown ==
    /\ StressReported
    /\ symbols = <<"XYZ.NS">> /\ weights.omitted /\ portfolio_value = 100000
    => \A c \in 1..Len(HISTORICAL_CRISES) :
        CrisisResultOf(HISTORICAL_CRISES[c].crisis_id).portfolio_drawdown_pct
            = RInt(HISTORICAL_CRISES[c].nifty_drawdown)

\* C4: the results are sorted most severe first, the worst case of the risk
\* summary is the crisis with the largest estimated loss, and the
\* recommendations that depend on the worst drawdown are taken on it.
C4_WorstCaseIsMostSevere ==
    StressReported =>
        LET r == stressOut.stress_test_results
            s == stressOut.risk_summary
            maxLoss == CHOOSE x \in {r[c].estimated_loss : c \in 1..Len(r)} :
                            \A c \in 1..Len(r) : ~RLt(x, r[c].estimated_loss)
            maxDrawdown == RAbs(RMul(RDiv(maxLoss, RInt(portfolio_value)), RInt(100)))
        IN  /\ \A c \in 1..(Len(r) - 1) : ~RLt(r[c].estimated_loss, r[c + 1].estimated_loss)
            /\ s.worst_case_loss = maxLoss
            /\ RAbs(s.worst_case_drawdown_pct) = maxDrawdown
            /\ CrisisResultOf(s.worst_case_scenario).estimated_loss = maxLoss
            /\ ("HIGH_RISK" \in stressOut.recommendations) = RLt(RInt(40), maxDrawdown)
            /\ ("MAINTAIN_CASH" \in stressOut.recommendations) = RLt(RInt(30), maxDrawdown)

----------------------------------------------------------------------------
(* core/decorators.py: robust_service, and data_manager.py: fetch_stock_data *)

MAX_RETRIES == 3
RETRY_DELAY == 1

\* Most rows of a frame the provider returns.
MaxRows == 2

\* What the wrapped function did: returned a Result, returned another value,
\* or raised.
Returned(x) == [kind |-> "return", isResult |-> FALSE, payload |-> x]
ReturnedResult(r) == [kind |-> "return", isResult |-> TRUE, payload |-> r]
Raised(e) == [kind |-> "raise", isResult |-> FALSE, payload |-> e]

\* robust_service.wrapper: a Result is passed through, any other value is
\* wrapped in Ok, an exception becomes Fail(str(e)).
robust_service_Rewrap(outcome) ==
    IF outcome.kind = "raise" THEN Fail(outcome.payload) ELSE Ok(outcome.payload)
robust_service(outcome) ==
    IF outcome.kind = "raise" THEN Fail(outcome.payload)
    ELSE IF outcome.isResult THEN outcome.payload
    ELSE Ok(outcome.payload)

required_cols == {"open", "high", "low", "close", "volume"}

\* Column sets of the frames yfinance may hand back.
ProviderColumnSets ==
    {{"Open", "High", "Low", "Close", "Volume", "Dividends", "Stock Splits"},
     {"Open", "High", "Low", "Close", "Adj Close", "Volume"},
     {"open", "high", "low", "close", "volume"},
     {"Open", "High", "Low", "Close"},
     {}}

\* str.lower() on a column name
LowerName(c) ==
    CASE c = "Open" -> "open" [] c = "High" -> "high" [] c = "Low" -> "low"
      [] c = "Close" -> "close" [] c = "Volume" -> "volume"
      [] c = "Adj Close" -> "adj close" [] c = "Stock Splits" -> "stock splits"
      [] c = "Dividends" -> "dividends" [] OTHER -> c

\* rename_map
RenameColumn(c) ==
    CASE c = "adj close" -> "adj_close" [] c = "stock splits" -> "stock_splits"
      [] OTHER -> c

\* ticker.history(...): an exception, or a frame [columns, nrows, zeroVolume]
\* (zeroVolume: every volume is 0).
ProviderFrames ==
    {[kind |-> "frame", columns |-> cs, nrows |-> n, zeroVolume |-> z] :
        cs \in ProviderColumnSets, n \in 0..MaxRows, z \in BOOLEAN}
ProviderOutcomes ==
    {[kind |-> "raise", columns |-> {}, nrows |-> 0, zeroVolume |-> FALSE]}
    \cup {f \in ProviderFrames :
            f.zeroVolume => (f.nrows > 0 /\ \E c \in f.columns : LowerName(c) = "volume")}

\* DataFrame.empty: no rows or no columns.
FrameEmpty_Never(f) == FALSE
FrameEmpty(f) == f.nrows = 0 \/ f.columns = {}

\* df.columns = df.columns.str.lower()
LowerColumns(f) == {LowerName(c) : c \in f.columns}

\* not all(col in df.columns for col in required_cols)
MissingColumns(f) == ~(required_cols \subseteq LowerColumns(f))

\* Steps 3 and 4: lower-case, rename, keep the required and renamed columns.
\* (Filling of missing values leaves the shape unchanged.)
CleanFrame(f) ==
    [columns |-> {c \in {RenameColumn(x) : x \in LowerColumns(f)} :
                    c \in required_cols \/ c \in {"adj_close", "stock_splits"}},
     nrows |-> f.nrows,
     zeroVolume |-> f.zeroVolume]

\* `for attempt in range(MAX_RETRIES)` has another iteration to run.
LoopRunning_OneMore(a) == a <= MAX_RETRIES
LoopRunning(a) == a < MAX_RETRIES

FetchInit ==
    /\ attempt = 0
    /\ attemptLog = <<>>
    /\ sleeps = <<>>
    /\ fetchPc = "loop"
    /\ fetchResult = "none"

\* One iteration of the retry loop: the provider call, validation and
\* cleaning; returns Result.Ok, or goes on to the next iteration (after a
\* sleep when the call raised and this was not the last iteration).
FetchAttempt ==
    /\ fetchPc = "loop"
    /\ LoopRunning(attempt)
    /\ \E o \in ProviderOutcomes :
        /\ attemptLog' = Append(attemptLog, o)
        /\ IF o.kind = "raise"
           THEN /\ sleeps' = IF attempt < MAX_RETRIES - 1
                             THEN Append(sleeps, RETRY_DELAY * (attempt + 1))
                             ELSE sleeps
                /\ attempt' = attempt + 1
                /\ UNCHANGED <<fetchPc, fetchResult>>
           ELSE IF FrameEmpty(o) \/ MissingColumns(o)
           THEN /\ attempt' = attempt + 1
                /\ UNCHANGED <<sleeps, fetchPc, fetchResult>>
           ELSE /\ fetchResult' = robust_service(ReturnedResult(Ok(CleanFrame(o))))
                /\ fetchPc' = "returned"
                /\ UNCHANGED <<attempt, sleeps>>
    /\ UNCHANGED <<stormVars, droughtVars, pumpVars, stressVars, caVars, indicatorVars, serviceVars>>

\* The loop ran out: return Result.Fail(...).
FetchGiveUp ==
    /\ fetchPc = "loop"
    /\ ~LoopRunning(attempt)
    /\ fetchResult' = robust_service(ReturnedResult(Fail("Failed to fetch data after MAX_RETRIES attempts")))
    /\ fetchPc' = "returned"
    /\ UNCHANGED <<attempt, attemptLog, sleeps>>
    /\ UNCHANGED <<stormVars, droughtVars, pumpVars, stressVars, caVars, indicatorVars, serviceVars>>

InitFetch ==
    FetchInit /\ StormIdle /\ DroughtIdle /\ PumpIdle /\ StressIdle /\ CaIdle /\ IndicatorsIdle /\ ServicesIdle
NextFetch == FetchAttempt \/ FetchGiveUp
SpecFetch == InitFetch /\ [][NextFetch]_vars

\* A provider outcome that is a usable series: a frame with at least one row
\* that has all five columns under some spelling of their names.
UsableOutcome(o) ==
    /\ o.kind = "frame"
    /\ o.nrows > 0
    /\ \A c \in {"open", "high", "low", "close", "volume"} :
            \E raw \in o.columns : LowerName(raw) = c

\* C9: at most 3 provider attempts per call; the call returns the series at
\* the first usable attempt and makes no attempt after it; it reports
\* failure only after exactly 3 failed attempts; until it has returned there
\* is a next step to take.
C9_AtMostThreeAttempts ==
    /\ Len(attemptLog) <= 3
    /\ \A i \in 1..Len(attemptLog) :
            UsableOutcome(attemptLog[i]) =>
                i = Len(attemptLog) /\ fetchPc = "returned" /\ fetchResult.success
    /\ fetchPc = "returned" /\ fetchResult.success =>
            attemptLog # <<>> /\ UsableOutcome(attemptLog[Len(attemptLog)])
    /\ fetchPc = "returned" /\ ~fetchResult.success => Len(attemptLog) = 3
    /\ fetchPc = "loop" => Len(attemptLog) = attempt /\ ENABLED NextFetch

C9_Witness ==
    /\ fetchPc = "returned"
    /\ ~fetchResult.success
    /\ Len(attemptLog) = 3
    /\ attemptLog[1].kind = "raise"
    /\ attemptLog[2].kind = "frame" /\ attemptLog[2].nrows = 0
    /\ attemptLog[3].kind = "frame" /\ attemptLog[3].nrows > 0

\* C10: the call ends with a Result, never an exception: a failure Result
\* with an error text when every attempt raised, came back empty or lacked a
\* required column; a success Result otherwise, whose series is non-empty
\* and has all five canonical lower-case columns, all-zero volume included.
C10_ExplicitFailureOrValidSeries ==
    fetchPc = "returned" =>
        /\ fetchResult.success \in BOOLEAN
        /\ fetchResult.success = (\E i \in 1..Len(attemptLog) : UsableOutcome(attemptLog[i]))
        /\ ~fetchResult.success =>
                fetchResult.value = "None" /\ fetchResult.error # "None"
        /\ fetchResult.success =>
                /\ fetchResult.error = "None"
                /\ fetchResult.value.nrows > 0
                /\ {"open", "high", "low", "close", "volume"} \subseteq fetchResult.value.columns
                /\ fetchResult.value.zeroVolume = attemptLog[Len(attemptLog)].zeroVolume

C10_Witness ==
    /\ fetchPc = "returned"
    /\ fetchResult.success
    /\ fetchResult.value.zeroVolume
    /\ Len(attemptLog) = 2
    /\ attemptLog[1].kind = "frame" /\ attemptLog[1].nrows > 0

----------------------------------------------------------------------------
(* resources/advanced_analytics.py: ComprehensiveAnalysisResource.get and   *)
(* generate_comprehensive_summary.                                          *)

\* Python values an entry of the analyses dict can hold, reduced to the keys
\* the summary reads.  drought_probability is in thousandths.
AnalysisValue(k, s, dp, lv, det, ty, e) ==
    [kind |-> k, success |-> s, drought_probability |-> dp, level |-> lv,
     divergence_detected |-> det, type |-> ty, error |-> e]

PyNone == AnalysisValue("None", FALSE, 0, "None", FALSE, "None", "None")
ErrorDict(e) == AnalysisValue("error", FALSE, 0, "None", FALSE, "None", e)
ResultOk(dp) == AnalysisValue("Result", TRUE, dp, "None", FALSE, "None", "None")
ResultFail(e) == AnalysisValue("Result", FALSE, 0, "None", FALSE, "None", e)
PlainDict == AnalysisValue("dict", TRUE, 0, "None", FALSE, "None", "None")
ManipulationDict(lv) == AnalysisValue("dict", TRUE, 0, lv, FALSE, "None", "None")
FlowDict(det, ty) == AnalysisValue("dict", TRUE, 0, "None", det, ty, "None")

\* What a call inside one of the try blocks does: returns a value, or raises
\* (the import or the call fails).
CallReturns(v) == [raises |-> FALSE, value |-> v, message |-> "None"]
CallRaises(e) == [raises |-> TRUE, value |-> PyNone, message |-> e]

\* predict_liquidity_drought is wrapped by robust_service: it hands back a
\* Result object, Fail("Missing data") without data and Ok(report) otherwise.
LiquidityOutcomes ==
    {CallReturns(ResultOk(dp)) : dp \in {200, 700}}
    \cup {CallReturns(ResultFail("Missing data")), CallRaises("import failed")}

\* The other analyzers return a dict, or None when they have no data or fail
\* inside their own try block.
FlowOutcomes ==
    {CallReturns(FlowDict(FALSE, "None")), CallReturns(FlowDict(TRUE, "BULLISH")),
     CallReturns(FlowDict(TRUE, "BEARISH")), CallReturns(PyNone),
     CallRaises("import failed")}
ManipulationOutcomes ==
    {CallReturns(ManipulationDict(lv)) : lv \in {"LOW", "HIGH", "CRITICAL"}}
    \cup {CallReturns(PyNone), CallRaises("import failed")}
PlainOutcomes ==
    {CallReturns(PlainDict), CallReturns(PyNone), CallRaises("import failed")}

\* try: analyses[key] = analyzer(symbol)
\* except Exception as e: analyses[key] = {"error": str(e)}
TryBlock(key, outcomes, nextPc) ==
    /\ caPc = key
    /\ \E o \in outcomes :
        analyses' = [k \in DOMAIN analyses \cup {key} |->
                        IF k = key
                        THEN (IF o.raises THEN ErrorDict(o.message) ELSE o.value)
                        ELSE analyses[k]]
    /\ caPc' = nextPc
    /\ UNCHANGED <<caOutcome, comprehensive_result>>
    /\ UNCHANGED <<stormVars, droughtVars, pumpVars, stressVars, fetchVars, indicatorVars, serviceVars>>

\* bool(x): None is false, a non-empty dict and a plain object are true.
Truthy(v) == v.kind # "None"

\* Only dicts have a get method; Result is a dataclass without one.
HasGet(v) == v.kind \in {"dict", "error"}

\* `analyses.get(key) and not analyses[key].get("error")` raises
\* AttributeError when the entry is true and has no get method.
EntryRaises(a, key) == Truthy(a[key]) /\ ~HasGet(a[key])
EntryUsable(a, key) == Truthy(a[key]) /\ a[key].kind # "error"

generate_comprehensive_summary(a) ==
    LET liq == EntryUsable(a, "liquidity_drought")
                 /\ a["liquidity_drought"].drought_probability > 500
        man == EntryUsable(a, "manipulation")
                 /\ a["manipulation"].level \in {"HIGH", "CRITICAL"}
        div == EntryUsable(a, "institutional_flow")
                 /\ a["institutional_flow"].divergence_detected
        bull == div /\ a["institutional_flow"].type = "BULLISH"
        bear == div /\ ~bull
        warnings ==
            (IF liq THEN <<"High liquidity drought risk">> ELSE <<>>)
            \o (IF man THEN <<"Potential manipulation patterns detected">> ELSE <<>>)
            \o (IF bear THEN <<"Bearish institutional divergence">> ELSE <<>>)
        opportunities ==
            IF bull THEN <<"Bullish institutional divergence">> ELSE <<>>
        risk_score == (IF liq THEN 20 ELSE 0) + (IF man THEN 30 ELSE 0)
                        + (IF bear THEN 15 ELSE 0)
        overall ==
            IF risk_score >= 50 THEN "HIGH_RISK"
            ELSE IF risk_score >= 30 THEN "ELEVATED_RISK"
            ELSE IF Len(opportunities) > Len(warnings) THEN "OPPORTUNITY"
            ELSE "NEUTRAL"
        action ==
            IF risk_score >= 50 THEN "AVOID"
            ELSE IF risk_score >= 30 THEN "CAUTION"
            ELSE IF Len(opportunities) > Len(warnings) THEN "CONSIDER_ENTRY"
            ELSE "HOLD/MONITOR"
    IN  IF \E key \in {"liquidity_drought", "manipulation", "institutional_flow"} :
              EntryRaises(a, key)
        THEN [raises |-> TRUE, overall_rating |-> "None",
              recommended_action |-> "None", risk_score |-> 0,
              warnings |-> <<>>, opportunities |-> <<>>]
        ELSE [raises |-> FALSE, overall_rating |-> overall,
              recommended_action |-> action, risk_score |-> risk_score,
              warnings |-> warnings, opportunities |-> opportunities]

CaInit ==
    /\ caPc = "liquidity_drought"
    /\ caOutcome = "none"
    /\ analyses = [k \in {} |-> PyNone]
    /\ comprehensive_result = "none"

CaLiquidityDrought == TryBlock("liquidity_drought", LiquidityOutcomes, "institutional_flow")
CaInstitutionalFlow == TryBlock("institutional_flow", FlowOutcomes, "options_zones")
CaOptionsZones == TryBlock("options_zones", PlainOutcomes, "manipulation")
CaManipulation == TryBlock("manipulation", ManipulationOutcomes, "narrative")
CaNarrative == TryBlock("narrative", PlainOutcomes, "sentiment")
CaSentiment == TryBlock("sentiment", PlainOutcomes, "summary")

\* The summary is computed outside every try block: the report is returned,
\* or the exception leaves the handler and the request fails.
CaSummary ==
    /\ caPc = "summary"
    /\ LET s == generate_comprehensive_summary(analyses)
       IN  IF s.raises
           THEN /\ caOutcome' = "raised"
                /\ UNCHANGED comprehensive_result
           ELSE /\ caOutcome' = "returned"
                /\ comprehensive_result' = [analyses |-> analyses, summary |-> s]
    /\ caPc' = "done"
    /\ UNCHANGED analyses
    /\ UNCHANGED <<stormVars, droughtVars, pumpVars, stressVars, fetchVars, indicatorVars, serviceVars>>

InitCa ==
    CaInit /\ StormIdle /\ DroughtIdle /\ PumpIdle /\ StressIdle /\ FetchIdle /\ IndicatorsIdle /\ ServicesIdle
NextCa ==
    \/ CaLiquidityDrought
    \/ CaInstitutionalFlow
    \/ CaOptionsZones
    \/ CaManipulation
    \/ CaNarrative
    \/ CaSentiment
    \/ CaSummary
SpecCa == InitCa /\ [][NextCa]_vars

\* A sub-analysis that did not deliver a report: no data or an inner failure
\* (None), a failure Result, or an exception.
ComponentFailed(v) ==
    v.kind = "None" \/ v.kind = "error" \/ (v.kind = "Result" /\ ~v.success)

\* C1: whatever the six sub-analyses did, the request ends with a report
\* that holds every sub-analysis entry and the summary, and every failed
\* component carries an "error" entry.
C1_AlwaysReturnsReport ==
    caPc = "done" =>
        /\ caOutcome = "returned"
        /\ comprehensive_result.analyses = analyses
        /\ ~comprehensive_result.summary.raises
        /\ \A k \in DOMAIN analyses :
                ComponentFailed(analyses[k]) => analyses[k].kind = "error"

\* The request is aborted by the summary whenever the liquidity entry is a
\* Result object.
CaAbortsOnResult ==
    caPc = "done" =>
        (caOutcome = "raised") = (analyses["liquidity_drought"].kind = "Result")

\* A returned report in which a failed component has no error entry.
CaReportHidesFailure ==
    /\ caPc = "done"
    /\ caOutcome = "returned"
    /\ \E k \in DOMAIN analyses :
            ComponentFailed(analyses[k]) /\ analyses[k].kind # "error"

----------------------------------------------------------------------------
(* data_manager.py: fetch_stock_data, step 4: missing values.              *)

\* Most rows of a frame with missing values.
MaxFillRows == 3

exceptFill == <<coreVars, weatherVars, vacuumVars, sentimentVars, serviceVars>>

IsNull(col) == \E i \in 1..Len(col) : col[i].nan

\* Index of the last present value before i, of the first one after i; 0 when
\* there is none.
PrevValid(col, i) ==
    LET S == {j \in 1..(i - 1) : ~col[j].nan}
    IN  IF S = {} THEN 0 ELSE CHOOSE j \in S : \A k \in S : k <= j
NextValid(col, i) ==
    LET S == {j \in (i + 1)..Len(col) : ~col[j].nan}
    IN  IF S = {} THEN 0 ELSE CHOOSE j \in S : \A k \in S : k >= j

\* Series.interpolate(method='linear'): a gap between two present values is
\* filled on the straight line between them, a gap after the last present
\* value repeats it, a gap before the first present value stays.
interpolate(col) ==
    [i \in 1..Len(col) |->
        IF ~col[i].nan THEN col[i]
        ELSE LET a == PrevValid(col, i)
                 b == NextValid(col, i)
             IN  IF a = 0 THEN NaN
                 ELSE IF b = 0 THEN col[a]
                 ELSE Num(col[a].v + ((col[b].v - col[a].v) * (i - a)) \div (b - a))]

\* Series.ffill() and Series.bfill()
ffill(col) ==
    [i \in 1..Len(col) |->
        IF ~col[i].nan THEN col[i]
        ELSE IF PrevValid(col, i) = 0 THEN NaN ELSE col[PrevValid(col, i)]]
bfill(col) ==
    [i \in 1..Len(col) |->
        IF ~col[i].nan THEN col[i]
        ELSE IF NextValid(col, i) = 0 THEN NaN ELSE col[NextValid(col, i)]]

\* if df[required_cols].isnull().values.any():
\*     df[required_cols] = df[required_cols].interpolate(...).ffill().bfill()
FillFrame(cols) ==
    IF \E c \in required_cols : IsNull(cols[c])
    THEN [c \in required_cols |-> bfill(ffill(interpolate(cols[c])))]
    ELSE cols

\* Columns of n cells, each missing or one of two values.
CellValues == {NaN, Num(1000), Num(3000)}
ColumnPatterns(n) == [1..n -> CellValues]
\* open, high and low share one of these patterns.
SharedPatterns(n) ==
    {[i \in 1..n |-> Num(1000)], [i \in 1..n |-> NaN],
     [i \in 1..n |-> IF i = 1 THEN NaN ELSE Num(3000)]}

FillInit ==
    /\ \E n \in 1..MaxFillRows :
        \E pc \in ColumnPatterns(n), pv \in ColumnPatterns(n), po \in SharedPatterns(n) :
            rawCols = [c \in required_cols |->
                        IF c = "close" THEN pc ELSE IF c = "volume" THEN pv ELSE po]
    /\ fillPc = "raw"
    /\ filledCols = <<>>

FillMissing ==
    /\ fillPc = "raw"
    /\ filledCols' = FillFrame(rawCols)
    /\ fillPc' = "done"
    /\ UNCHANGED rawCols
    /\ UNCHANGED exceptFill

InitFill == FillInit /\ CoreIdle /\ WeatherIdle /\ VacuumIdle /\ SentimentIdle /\ ServicesIdle
NextFill == FillMissing
SpecFill == InitFill /\ [][NextFill]_vars

\* C11: the cleaned frame has no missing value in any required column,
\* whatever the pattern of missing values in the provider's frame.
C11_NaNFree ==
    fillPc = "done" => \A c \in required_cols : ~IsNull(filledCols[c])

\* The cleaned frame has no missing value in any column that had at least
\* one present value, and present values are kept.
FilledWherePossible ==
    fillPc = "done" =>
        \A c \in required_cols :
            /\ (\E i \in 1..Len(rawCols[c]) : ~rawCols[c][i].nan) => ~IsNull(filledCols[c])
            /\ \A i \in 1..Len(rawCols[c]) :
                    ~rawCols[c][i].nan => filledCols[c][i] = rawCols[c][i]

----------------------------------------------------------------------------
(* market_weather.py and regime_engine.py: technical indicators.           *)
(* Prices are integers, volumes count millions of shares.  ATR is in       *)
(* thousandths of a price unit, volatility in basis points (1e-4),         *)
(* momentum in thousandths, liquidity in thousands of shares per price     *)
(* unit.                                                                   *)

\* What a call did: returned a float, or raised.
Value(x) == [raises |-> FALSE, value |-> x]
Raise == [raises |-> TRUE, value |-> NaN]

\* prev_close = df["close"].shift(1).fillna(df["close"])
prev_close(d, i) == IF i = 1 THEN d[1].close ELSE d[i - 1].close

\* tr of market_weather.average_true_range, row i
true_range(d, i) ==
    Max2(Abs(d[i].high - d[i].low),
         Max2(Abs(d[i].high - prev_close(d, i)), Abs(d[i].low - prev_close(d, i))))

\* tr of regime_engine.average_true_range, row i: high - low is not made
\* absolute.
true_range_regime(d, i) ==
    Max2(d[i].high - d[i].low,
         Max2(Abs(d[i].high - prev_close(d, i)), Abs(d[i].low - prev_close(d, i))))

\* tr.rolling(n).mean() at the last row, defined when there are n rows.
RollingMeanLast(tr, n) == (SumSeq(TailN(tr, n)) * 1000) \div n

\* market_weather.average_true_range(df, n): the last rolling mean, or the
\* last true range when no window is complete.
average_true_range(d, n) ==
    LET tr == [i \in 1..Len(d) |-> true_range(d, i)]
    IN  IF Len(d) >= n THEN Num(RollingMeanLast(tr, n))
        ELSE Num(tr[Len(d)] * 1000)

\* regime_engine.average_true_range(df, n): .dropna().iloc[-1] raises
\* IndexError when no window is complete.
NoWindow(d, n) == Len(d) < n
average_true_range_regime(d, n) ==
    LET tr == [i \in 1..Len(d) |-> true_range_regime(d, i)]
    IN  IF NoWindow(d, n) THEN Raise
        ELSE Value(Num(RollingMeanLast(tr, n)))

\* volatility_score (the same in both modules): the standard deviation of
\* the last 14 percentage returns; NaN while there are fewer than 14.
volatility_score(d) ==
    LET returns == PctChangeBp(Column(d, "close"))
    IN  IF returns = <<>> THEN Num(0)
        ELSE IF Len(returns) < 14 THEN NaN
        ELSE Num(SampleStd(TailN(returns, 14)))

\* close.rolling(w).mean().iloc[-1] as the pair <<sum, w>>
RollingCloseSum(d, w) == SumSeq(TailN(Column(d, "close"), w))

\* (short_ma - long_ma) / long_ma in thousandths
RelativeGap(d, short, w) ==
    ((RollingCloseSum(d, short) * w - RollingCloseSum(d, w) * short) * 1000)
        \div (short * RollingCloseSum(d, w))

\* market_weather.momentum_score(df, 7, 30)
momentum_score(d) ==
    LET short == 7
        long == 30
        w == IF Len(d) >= long THEN long ELSE Max2(1, Len(d) \div 2)
    IN  IF RollingCloseSum(d, w) = 0 THEN Num(0)
        ELSE IF Len(d) < short THEN NaN
        ELSE Num(RelativeGap(d, short, w))

\* regime_engine.momentum_score(df, 7, 30)
momentum_score_regime(d) ==
    LET short == 7
        long == 30
        w == Min2(long, Len(d))
    IN  IF ~(RollingCloseSum(d, w) > 0) THEN Num(0)
        ELSE IF Len(d) < short THEN NaN
        ELSE Num(RelativeGap(d, short, w))

\* mean volume / price, in thousands of shares per price unit
MeanVolumePerPrice(vols, p) == ((SumSeq(vols) * 1000) \div Len(vols)) \div p

\* market_weather.liquidity_proxy
liquidity_proxy(d) ==
    LET vols == IF Len(d) >= 20 THEN TailN(Column(d, "volume"), 20)
                ELSE Column(d, "volume")
        p == d[Len(d)].close
    IN  IF p = 0 THEN Num(0) ELSE Num(MeanVolumePerPrice(vols, p))

\* regime_engine.liquidity_proxy
liquidity_proxy_regime(d) ==
    LET vols == TailN(Column(d, "volume"), 20)
        p == d[Len(d)].close
    IN  IF p = 0 THEN Num(0) ELSE Num(MeanVolumePerPrice(vols, p))

----------------------------------------------------------------------------
(* liquidity_vacuum.py.  z-scores and scores are in thousandths, the       *)
(* spread proxy in basis points (1e-4).                                    *)

\* Longest volume list: compute_market_weather passes df["volume"].tail(30).
MaxVolumes == 30

exceptVacuum == <<coreVars, fillVars, weatherVars, sentimentVars, serviceVars>>

\* arr.size < 5
TooFewVolumes_Three(n) == n < 3
TooFewVolumes(n) == n < 5

\* compute_volume_z: (arr[-1] - mean) / std, with std = 1.0 when it is 0;
\* with S the sum and Q the sum of squares, (n*last - S) / sqrt(n*Q - S^2).
compute_volume_z(vols) ==
    LET n == Len(vols)
        S == SumSeq(vols)
        Q == SumSeq([i \in 1..n |-> vols[i] * vols[i]])
        D == n * Q - S * S
        top == n * vols[n] - S
    IN  IF TooFewVolumes(n) THEN 0
        ELSE IF D = 0 THEN (top * 1000) \div n
        ELSE IF top >= 0 THEN (top * 10000) \div ISqrt(D * 100)
        ELSE -((-top * 10000) \div ISqrt(D * 100))

NoSpread == [given |-> FALSE, bp |-> 0]
Spread(b) == [given |-> TRUE, bp |-> b]

liquidity_vacuum_score(vols, spread) ==
    LET vol_z == compute_volume_z(vols)
        vacuum_factor == Max2(0, -vol_z) \div 4
        spread_factor == IF spread.given THEN Min2(1000, spread.bp * 10) ELSE 0
        score == Min2(1000, (vacuum_factor * 7 + spread_factor * 3) \div 10)
    IN  [vacuum_score |-> score, volume_z |-> vol_z, spread_proxy |-> spread.bp]

\* The test scenario of tests/test_novel_features.py::test_vacuum.
ScenarioVolumes == <<100, 120, 110, 90, 10>>

\* k equal or alternating volumes followed by a newest one, and the
\* prefixes of the test scenario.
VolumeLevels == {10, 90, 100, 120}
VacuumInputs ==
    {Repeat(a, k) \o <<b>> : k \in 0..(MaxVolumes - 1), a \in VolumeLevels, b \in VolumeLevels}
    \cup {[i \in 1..k |-> IF i % 2 = 1 THEN 100 ELSE 90] \o <<b>> :
            k \in 0..(MaxVolumes - 1), b \in VolumeLevels}
    \cup {HeadN(ScenarioVolumes, m) : m \in 1..Len(ScenarioVolumes)}

VacuumInit ==
    /\ last_volumes \in VacuumInputs
    /\ bid_ask_spread_proxy \in {NoSpread} \cup {Spread(b) : b \in {0, 50, 100, 200}}
    /\ lvPc = "call"
    /\ lvOut = "none"

VacuumCall ==
    /\ lvPc = "call"
    /\ lvOut' = liquidity_vacuum_score(last_volumes, bid_ask_spread_proxy)
    /\ lvPc' = "done"
    /\ UNCHANGED <<last_volumes, bid_ask_spread_proxy>>
    /\ UNCHANGED exceptVacuum

InitVacuum == VacuumInit /\ CoreIdle /\ FillIdle /\ WeatherIdle /\ SentimentIdle /\ ServicesIdle
NextVacuum == VacuumCall
SpecVacuum == InitVacuum /\ [][NextVacuum]_vars

----------------------------------------------------------------------------
(* market_weather.compute_market_weather and                               *)
(* regime_engine.compute_market_weather.  Normalised values and scores of  *)
(* [0,1] are in thousandths.                                               *)

\* Longest series handed to the two compute_market_weather functions.
MaxWeatherBars == 31

exceptWeather == <<coreVars, fillVars, vacuumVars, sentimentVars, serviceVars>>

\* The names danger_zones.py binds at module level.
DangerZonesNames ==
    {"datetime", "logging", "Optional", "Dict", "Any", "pd", "logger",
     "_fetch_ohlcv", "average_true_range", "pivot_support_resistance",
     "high_volume_events", "compute_danger_zones"}

\* `from app.services.danger_zones import compute_dzi` under try/except:
\* when the name is not there the import fails and compute_dzi = None.
HasComputeDzi == "compute_dzi" \in DangerZonesNames

NoSnapshot == [kind |-> "None"]

\* score -> label of market_weather.compute_market_weather
Recommendation_Shifted(safety_score) ==
    IF safety_score < 30 THEN "avoid"
    ELSE IF safety_score < 55 THEN "caution"
    ELSE IF safety_score <= 75 THEN "ok"
    ELSE "bullish"
Recommendation(safety_score) ==
    IF safety_score < 30 THEN "avoid"
    ELSE IF safety_score < 55 THEN "caution"
    ELSE IF safety_score < 75 THEN "ok"
    ELSE "bullish"

\* vol_norm = min(1.0, vol / 0.05); liq_norm = min(1.0, liq / 1e6);
\* mom_norm = max(-1.0, min(1.0, mom * 5))
VolNorm(vol) == PyMin(Num(1000), FScale(vol, 2, 1))
LiqNorm(liq) == PyMin(Num(1000), liq)
MomNorm(mom) == PyMax(Num(-1000), PyMin(Num(1000), FScale(mom, 5, 1)))

\* (1 - vol_norm) * 0.5 + liq_norm * 0.3 + (0.1 + mom_norm * 0.1)
BaseScore(vol_norm, liq_norm, mom_norm) ==
    FAdd(FAdd(FScale(FAdd(Num(1000), FScale(vol_norm, -1, 1)), 5, 10),
              FScale(PyMin(Num(1000), liq_norm), 3, 10)),
         FAdd(Num(100), FScale(mom_norm, 1, 10)))

\* int(max(0, min(1.0, score)) * 100)
SafetyScore(score) == PyMax(Num(0), PyMin(Num(1000), score)).v \div 10

\* None, as the value of a snapshot field.
NoneField == [kind |-> "None"]

\* The base output of compute_market_weather: the weather metrics, the
\* score and the label, before the risk models are run.
BaseSnapshot(d) ==
    LET atr == average_true_range(d, 14)
        vol == volatility_score(d)
        mom == momentum_score(d)
        liq == liquidity_proxy(d)
        vol_norm == VolNorm(vol)
        liq_norm == LiqNorm(liq)
        mom_norm == MomNorm(mom)
        safety_score == SafetyScore(BaseScore(vol_norm, liq_norm, mom_norm))
    IN  [price |-> d[Len(d)].close,
         atr |-> atr,
         volatility |-> vol,
         momentum |-> mom,
         liquidity |-> liq,
         safety_score |-> safety_score,
         recommendation |-> Recommendation(safety_score),
         meta |-> [vol_norm |-> vol_norm, liq_norm |-> liq_norm, mom_norm |-> mom_norm]]

\* snapshot["vacuum"]["vacuum_score"] or
\* snapshot["storm_probability"]["storm_probability"] raises KeyError.
AggregationRaises(vacuum, storm) ==
    \/ vacuum # NoneField /\ "vacuum_score" \notin DOMAIN vacuum
    \/ storm # NoneField /\ "storm_probability" \notin DOMAIN storm

\* The final risk aggregation: min(1.0, max(0.0, 0.4 * storm + 0.3 * vacuum
\* + 0.3 * dzi)), or None when a component cannot be read.
FinalRiskScore(vacuum, storm) ==
    IF AggregationRaises(vacuum, storm) THEN NoneField
    ELSE
    LET vac_component == IF vacuum = NoneField THEN 0 ELSE vacuum.vacuum_score
        storm_component == IF storm = NoneField THEN Num(0) ELSE storm.storm_probability
        dzi_component == 0
        final_storm_score ==
            FAdd(FAdd(FScale(storm_component, 4, 10),
                      Num((vac_component * 3) \div 10)),
                 Num((dzi_component * 3) \div 10))
    IN  PyMin(Num(1000), PyMax(Num(0), final_storm_score))

\* A stage that also relabels the snapshot from the final risk score.
RiskStage_Relabel(base, vacuum, storm) ==
    [kind |-> "snapshot",
     price |-> base.price,
     atr |-> base.atr,
     volatility |-> base.volatility,
     momentum |-> base.momentum,
     liquidity |-> base.liquidity,
     safety_score |-> base.safety_score,
     recommendation |-> IF FinalRiskScore(vacuum, storm) = NoneField THEN "avoid"
                        ELSE base.recommendation,
     meta |-> base.meta,
     vacuum |-> vacuum,
     storm_probability |-> storm,
     dzi_score |-> IF HasComputeDzi THEN "float" ELSE "None",
     final_risk_score |-> FinalRiskScore(vacuum, storm)]

\* The risk-model stage: the snapshot with the models' outputs and the final
\* risk score added.  vacuum and storm are what the two models returned
\* (NoneField when the model could not be imported).
RiskStage(base, vacuum, storm) ==
    [kind |-> "snapshot",
     price |-> base.price,
     atr |-> base.atr,
     volatility |-> base.volatility,
     momentum |-> base.momentum,
     liquidity |-> base.liquidity,
     safety_score |-> base.safety_score,
     recommendation |-> base.recommendation,
     meta |-> base.meta,
     vacuum |-> vacuum,
     storm_probability |-> storm,
     dzi_score |-> IF HasComputeDzi THEN "float" ELSE "None",
     final_risk_score |-> FinalRiskScore(vacuum, storm)]

\* market_weather.compute_market_weather on the frame d that _fetch_ohlcv
\* returned (<<>>: None or empty).
compute_market_weather(d) ==
    IF d = <<>> THEN NoSnapshot
    ELSE RiskStage(BaseSnapshot(d),
                   liquidity_vacuum_score(TailN(Column(d, "volume"), 30), NoSpread),
                   storm_probability(TailN(Column(d, "close"), 50), 5, 5))

\* score -> label of regime_engine.compute_market_weather; the score is in
\* thousandths of a point.
RegimeRecommendation(final_risk_score) ==
    IF FGt(final_risk_score, Num(75000)) THEN "avoid"
    ELSE IF FGt(final_risk_score, Num(55000)) THEN "caution"
    ELSE IF FGt(final_risk_score, Num(35000)) THEN "neutral"
    ELSE "bullish"

\* regime_engine.compute_market_weather: any exception inside the try block
\* is logged and None is returned.
compute_market_weather_regime(d) ==
    IF d = <<>> THEN NoSnapshot
    ELSE IF average_true_range_regime(d, 14).raises THEN NoSnapshot
    ELSE
    LET atr == average_true_range_regime(d, 14).value
        vol == volatility_score(d)
        mom == momentum_score_regime(d)
        liq == liquidity_proxy_regime(d)
        safety_score == SafetyScore(BaseScore(VolNorm(vol), LiqNorm(liq), MomNorm(mom)))
        vac == liquidity_vacuum_score(TailN(Column(d, "volume"), 30), NoSpread)
        storm == storm_probability(TailN(Column(d, "close"), 30), 5, 5)
        final_risk_score ==
            FAdd(Num(600 * (100 - safety_score)), FScale(storm.storm_probability, 40, 1))
    IN  [kind |-> "snapshot",
         price |-> d[Len(d)].close,
         atr |-> atr,
         volatility |-> vol,
         momentum |-> mom,
         liquidity |-> liq,
         market_weather_score |-> safety_score,
         liquidity_vacuum |-> vac,
         storm_probability |-> storm,
         final_risk_score |-> final_risk_score,
         recommendation |-> RegimeRecommendation(final_risk_score)]

\* Bars of the model; the closes are prices the log table of market_storm
\* covers.
WeatherBarKinds ==
    {Bar(100, 101, 99, 100, 50),      \* calm
     Bar(99, 100, 98, 99, 120),       \* calm, very liquid
     Bar(100, 100, 100, 100, 0),      \* no range, no volume
     Bar(90, 95, 85, 90, 10),         \* wide range, thin
     Bar(80, 100, 80, 80, 100),       \* collapse within the bar
     Bar(80, 80, 80, 80, 0)}          \* no range, no volume, far away
WeatherInputs ==
    {SegSeries(n, m, a, b) : n \in 0..MaxWeatherBars, m \in 0..MaxWeatherBars,
                             a \in WeatherBarKinds, b \in WeatherBarKinds}
    \cup {AltSeries(n, a, b) : n \in 0..MaxWeatherBars,
                               a \in WeatherBarKinds, b \in WeatherBarKinds}

WeatherInit ==
    /\ ohlcv \in WeatherInputs
    /\ mwPc = "call" /\ mwOut = "none"
    /\ rePc = "call" /\ reOut = "none"
    /\ dzPc = "idle" /\ dzOut = "none"

MarketWeatherCall ==
    /\ mwPc = "call"
    /\ mwOut' = compute_market_weather(ohlcv)
    /\ mwPc' = "done"
    /\ UNCHANGED <<ohlcv, rePc, reOut, dzPc, dzOut>>
    /\ UNCHANGED exceptWeather

RegimeWeatherCall ==
    /\ rePc = "call"
    /\ reOut' = compute_market_weather_regime(ohlcv)
    /\ rePc' = "done"
    /\ UNCHANGED <<ohlcv, mwPc, mwOut, dzPc, dzOut>>
    /\ UNCHANGED exceptWeather

InitWeather == WeatherInit /\ CoreIdle /\ FillIdle /\ VacuumIdle /\ SentimentIdle /\ ServicesIdle
NextWeather == MarketWeatherCall \/ RegimeWeatherCall
SpecWeather == InitWeather /\ [][NextWeather]_vars

\* The most recent bar's true range, in thousandths.
LastTrueRange(d) ==
    LET i == Len(d)
        pc == IF i = 1 THEN d[1].close ELSE d[i - 1].close
    IN  1000 * Max2(d[i].high - d[i].low,
                    Max2(Abs(d[i].high - pc), Abs(d[i].low - pc)))

\* C12: for a non-empty series of fewer than 14 bars both implementations
\* of average_true_range return the most recent true range and do not raise,
\* so both compute_market_weather functions deliver a snapshot.
C12_ShortSeriesAtr ==
    ohlcv # <<>> /\ Len(ohlcv) < 14 =>
        /\ mwPc = "done" =>
                /\ mwOut.kind = "snapshot"
                /\ mwOut.atr = Num(LastTrueRange(ohlcv))
        /\ rePc = "done" =>
                /\ reOut.kind = "snapshot"
                /\ reOut.atr = Num(LastTrueRange(ohlcv))

\* The market_weather implementation does as C12 says.
ShortSeriesAtrMarketWeather ==
    ohlcv # <<>> /\ Len(ohlcv) < 14 /\ mwPc = "done" =>
        mwOut.kind = "snapshot" /\ mwOut.atr = Num(LastTrueRange(ohlcv))

\* The regime_engine implementation delivers nothing for a short series.
ShortSeriesRegimeNone ==
    ohlcv # <<>> /\ rePc = "done" => ((reOut.kind = "None") = (Len(ohlcv) < 14))

\* C13: volatility_score is 0 when the series has fewer than 2 percentage
\* returns, and a non-negative number, never NaN, for every non-empty
\* series; so is the "volatility" field of both snapshots.
C13_VolatilityFinite ==
    ohlcv # <<>> =>
        /\ ~volatility_score(ohlcv).nan
        /\ volatility_score(ohlcv).v >= 0
        /\ Len(ohlcv) <= 2 => volatility_score(ohlcv) = Num(0)
        /\ mwPc = "done" /\ mwOut.kind = "snapshot" => ~mwOut.volatility.nan
        /\ rePc = "done" /\ reOut.kind = "snapshot" => ~reOut.volatility.nan

\* volatility_score is NaN exactly for series of 2 to 14 bars, and 0 for a
\* single bar.
VolatilityNaNBelow15Bars ==
    ohlcv # <<>> /\ mwPc = "done" =>
        /\ mwOut.volatility.nan = (Len(ohlcv) \in 2..14)
        /\ Len(ohlcv) = 1 => mwOut.volatility = Num(0)
        /\ ~mwOut.volatility.nan => mwOut.volatility.v >= 0

\* C14: without a spread proxy, vacuum_score is greater than 0 exactly when
\* there are at least 5 volumes and the newest is strictly below their mean;
\* otherwise it is 0.
C14_VacuumPositiveIffDrop ==
    lvPc = "done" /\ ~bid_ask_spread_proxy.given =>
        LET n == Len(last_volumes)
            drop == n >= 5 /\ n * last_volumes[n] < SumSeq(last_volumes)
        IN  /\ drop => lvOut.vacuum_score > 0
            /\ ~drop => lvOut.vacuum_score = 0

C14_Witness ==
    /\ lvPc = "done"
    /\ ~bid_ask_spread_proxy.given
    /\ last_volumes = <<100, 120, 110, 90, 10>>
    /\ lvOut.vacuum_score > 0

\* C15: for every non-empty series market_weather.compute_market_weather
\* delivers a safety score that is an integer in [0,100], and the
\* recommendation depends on that score alone: avoid below 30, caution from
\* 30 to 54, ok from 55 to 74, bullish from 75 up.
C15_SafetyScoreAndLabel ==
    mwPc = "done" /\ ohlcv # <<>> =>
        /\ mwOut.kind = "snapshot"
        /\ mwOut.safety_score \in 0..100
        /\ mwOut.safety_score \in 0..29 => mwOut.recommendation = "avoid"
        /\ mwOut.safety_score \in 30..54 => mwOut.recommendation = "caution"
        /\ mwOut.safety_score \in 55..74 => mwOut.recommendation = "ok"
        /\ mwOut.safety_score \in 75..100 => mwOut.recommendation = "bullish"

C15_Witness ==
    /\ mwPc = "done"
    /\ Len(ohlcv) >= 15
    /\ mwOut.safety_score = 75
    /\ mwOut.recommendation = "bullish"

----------------------------------------------------------------------------
(* market_storm.py: monotonicity in the loss threshold.                    *)

\* Loss thresholds in percent for which the log table has an entry.
StormThresholds == {1, 5, 10, 50}

\* a >= b on floats: false when either is NaN.
FGe(a, b) == ~a.nan /\ ~b.nan /\ a.v >= b.v

StormAt(t) == storm_probability(prices, t, horizon_bars).storm_probability

\* C16: for the price series and horizon of a call, the storm probability
\* at a lower loss threshold is at least the one at a higher threshold.
C16_MonotoneInThreshold ==
    stormPc = "done" =>
        /\ stormOut.storm_probability = StormAt(loss_threshold_pct)
        /\ \A t1 \in StormThresholds, t2 \in StormThresholds :
                t1 < t2 => FGe(StormAt(t1), StormAt(t2))

\* Monotone whenever the series has at least two prices, in both branches.
MonotoneWhenDefined ==
    stormPc = "done" /\ Len(prices) >= 2 =>
        \A t1 \in StormThresholds, t2 \in StormThresholds :
            t1 < t2 => FGe(StormAt(t1), StormAt(t2))

\* Both branches give different values at different thresholds.
MonotoneStrictEmpirical ==
    stormPc = "done" /\ Len(prices) \in 2..20 /\ StormAt(5).v > StormAt(10).v
MonotoneStrictNormal ==
    stormPc = "done" /\ Len(prices) > 20 /\ StormAt(5).v > StormAt(10).v

----------------------------------------------------------------------------
(* sentiment_velocity.py.  Sentiment scores, velocities and noise are in   *)
(* thousandths.  np.random is the generator of the process, shared by all  *)
(* request threads; its state is an index into its output sequence.        *)

\* Longest closing-price series and the period of the generator.
MaxSentimentBars == 6
RngPeriod == 3

exceptSentiment == <<coreVars, fillVars, weatherVars, vacuumVars, serviceVars>>

Threads == {1, 2}

\* np.random.normal(0, 0.1) in generator state k, and the state after it.
NoiseOf(k) == ((k * 170) % 400) - 200
NextRng(k) == (k + 1) % RngPeriod

\* np.tanh(x), x in thousandths, to half-unit resolution.
TanhMilli(x) ==
    LET a == Abs(x)
        t == IF a < 250 THEN 0 ELSE IF a < 750 THEN 462 ELSE IF a < 1250 THEN 762
             ELSE IF a < 1750 THEN 905 ELSE IF a < 2500 THEN 964 ELSE 1000
    IN  IF x < 0 THEN -t ELSE t

\* One row of the loop of simulate_sentiment_data: the sentiment of row i
\* given the generator state; the first row draws nothing.
RowSentiment(closes, i, k) ==
    IF i = 1 THEN 0
    ELSE LET ret_bp == ((closes[i] - closes[i - 1]) * 10000) \div closes[i - 1]
         IN  Max2(-1000, Min2(1000, TanhMilli(ret_bp * 5) + NoiseOf(k)))

Diff(s) == [i \in 1..(Len(s) - 1) |-> s[i + 1] - s[i]]

\* np.std (ddof = 0)
PopStd(v) ==
    LET n == Len(v)
        S == SumSeq(v)
        Q == SumSeq([i \in 1..n |-> v[i] * v[i]])
    IN  ISqrt(n * Q - S * S) \div n

calculate_sentiment_velocity(scores) ==
    IF Len(scores) < 3
    THEN [velocity |-> 0, acceleration |-> 0, volatility |-> 0]
    ELSE LET velocity == Diff(scores)
             acceleration == Diff(velocity)
         IN  [velocity |-> velocity[Len(velocity)],
              acceleration |-> IF Len(acceleration) > 0
                               THEN acceleration[Len(acceleration)] ELSE 0,
              volatility |-> PopStd(velocity)]

\* detect_sentiment_anomaly(scores, 2.0).is_anomalous: |z| > 2 for the
\* z-score (n*latest - S) / sqrt(n*Q - S^2) of the latest change.
detect_sentiment_anomaly(scores) ==
    IF Len(scores) < 10 THEN FALSE
    ELSE LET changes == Diff(scores)
             n == Len(changes)
             S == SumSeq(changes)
             Q == SumSeq([i \in 1..n |-> changes[i] * changes[i]])
             D == n * Q - S * S
             top == n * changes[n] - S
         IN  IF D = 0 THEN FALSE ELSE top * top > 4 * D

NoAnalysis ==
    [kind |-> "None", scores |-> <<>>, velocity |-> 0, acceleration |-> 0,
     volatility |-> 0, state |-> "None", is_anomalous |-> FALSE,
     manipulation_risk |-> "None"]

\* analyze_sentiment_velocity on the scores simulate_sentiment_data returned
analyze_sentiment_velocity(scores) ==
    IF Len(scores) < 5 THEN NoAnalysis
    ELSE LET m == calculate_sentiment_velocity(scores)
             anomalous == detect_sentiment_anomaly(scores)
         IN  [kind |-> "report",
              scores |-> scores,
              velocity |-> m.velocity,
              acceleration |-> m.acceleration,
              volatility |-> m.volatility,
              state |-> IF m.velocity > 100 THEN "ACCELERATING_POSITIVE"
                        ELSE IF m.velocity < -100 THEN "ACCELERATING_NEGATIVE"
                        ELSE IF Abs(m.velocity) < 20 THEN "STABLE"
                        ELSE "DRIFTING",
              is_anomalous |-> anomalous,
              manipulation_risk |-> IF anomalous THEN "HIGH"
                                    ELSE IF m.volatility > 300 THEN "ELEVATED"
                                    ELSE "LOW"]

\* Closing prices _fetch_ohlcv returns for the symbol: flat, alternating, or
\* flat with a drop on the last bar.
SentimentInputs ==
    {[i \in 1..n |-> 100] : n \in {0, 4, 5, MaxSentimentBars}}
    \cup {[i \in 1..n |-> IF i % 2 = 1 THEN 100 ELSE 101] : n \in {5, MaxSentimentBars}}
    \cup {[i \in 1..n |-> IF i = n THEN 98 ELSE 100] : n \in {5, MaxSentimentBars}}

SentimentInit ==
    /\ svCloses \in SentimentInputs
    /\ np_random = 0
    /\ svPc = [t \in Threads |-> "idle"]
    /\ svEntry = [t \in Threads |-> [state |-> 0, disturbed |-> FALSE]]
    /\ sentiment_data = [t \in Threads |-> <<>>]
    /\ svOut = [t \in Threads |-> NoAnalysis]

\* Every invocation that is inside its loop sees the generator touched by
\* somebody else.
Disturb(t) ==
    [u \in Threads |->
        IF u # t /\ svPc[u] = "loop"
        THEN [svEntry[u] EXCEPT !.disturbed = TRUE] ELSE svEntry[u]]

\* A caller seeds the generator of the process: np.random.seed(0).
SvSeed(t) ==
    /\ svPc[t] = "idle"
    /\ np_random # 0
    /\ np_random' = 0
    /\ svEntry' = Disturb(t)
    /\ UNCHANGED <<svCloses, svPc, sentiment_data, svOut>>
    /\ UNCHANGED exceptSentiment

\* Thread t enters analyze_sentiment_velocity / simulate_sentiment_data.
SvBegin(t) ==
    /\ svPc[t] = "idle"
    /\ svEntry' = [svEntry EXCEPT ![t] = [state |-> np_random, disturbed |-> FALSE]]
    /\ svPc' = [svPc EXCEPT ![t] = IF svCloses = <<>> THEN "analyze" ELSE "loop"]
    /\ UNCHANGED <<svCloses, np_random, sentiment_data, svOut>>
    /\ UNCHANGED exceptSentiment

\* Thread t handles the next row of the frame.
SvRow(t) ==
    /\ svPc[t] = "loop"
    /\ LET i == Len(sentiment_data[t]) + 1
       IN  /\ sentiment_data' =
                [sentiment_data EXCEPT ![t] = Append(@, RowSentiment(svCloses, i, np_random))]
           /\ np_random' = IF i = 1 THEN np_random ELSE NextRng(np_random)
           /\ svEntry' = IF i = 1 THEN svEntry ELSE Disturb(t)
           /\ svPc' = [svPc EXCEPT ![t] = IF i = Len(svCloses) THEN "analyze" ELSE "loop"]
    /\ UNCHANGED <<svCloses, svOut>>
    /\ UNCHANGED exceptSentiment

\* Thread t computes the report from its scores and returns.
SvAnalyze(t) ==
    /\ svPc[t] = "analyze"
    /\ svOut' = [svOut EXCEPT ![t] = analyze_sentiment_velocity(sentiment_data[t])]
    /\ svPc' = [svPc EXCEPT ![t] = "done"]
    /\ UNCHANGED <<svCloses, np_random, svEntry, sentiment_data>>
    /\ UNCHANGED exceptSentiment

InitSentiment == SentimentInit /\ CoreIdle /\ FillIdle /\ WeatherIdle /\ VacuumIdle /\ ServicesIdle
NextSentiment ==
    \E t \in Threads : SvSeed(t) \/ SvBegin(t) \/ SvRow(t) \/ SvAnalyze(t)
SpecSentiment == InitSentiment /\ [][NextSentiment]_vars

\* C17: two invocations on the same price series that found the generator
\* in the same state deliver the same scores, velocity, acceleration,
\* anomaly flag and risk level.
C17_SameSourceSameResult ==
    svPc[1] = "done" /\ svPc[2] = "done" /\ svEntry[1].state = svEntry[2].state =>
        svOut[1] = svOut[2]

\* The results agree when nobody else touched the generator during either
\* invocation.
SameResultWhenUndisturbed ==
    /\ svPc[1] = "done" /\ svPc[2] = "done"
    /\ svEntry[1].state = svEntry[2].state
    /\ ~svEntry[1].disturbed /\ ~svEntry[2].disturbed
    => svOut[1] = svOut[2]

\* Two invocations that ran one after the other without a seed call in
\* between differ.
SuccessiveRunsDiffer ==
    /\ svPc[1] = "done" /\ svPc[2] = "done"
    /\ ~svEntry[1].disturbed /\ ~svEntry[2].disturbed
    /\ svOut[1].kind = "report" /\ svOut[1] # svOut[2]

----------------------------------------------------------------------------
(* liquidity_vacuum.py against the documented formula.                     *)

\* min(1, 0.7*volumeFactor + 0.3*spreadFactor) with
\* volumeFactor = clamp(max(0, -z)/4, 0, 1), spreadFactor = min(1, spread/0.01)
ReferenceVacuumScore(z, spread) ==
    LET volumeFactor == Max2(0, Min2(1000, Max2(0, -z) \div 4))
        spreadFactor == IF spread.given THEN Min2(1000, spread.bp * 10) ELSE 0
    IN  Min2(1000, (volumeFactor * 7 + spreadFactor * 3) \div 10)

\* C18: vacuum_score equals the documented formula for every z-score a
\* window of up to 30 volumes produces, and stays at or below 0.7 when no
\* spread proxy is given.
C18_MatchesReference ==
    lvPc = "done" =>
        /\ lvOut.vacuum_score = ReferenceVacuumScore(lvOut.volume_z, bid_ask_spread_proxy)
        /\ ~bid_ask_spread_proxy.given => lvOut.vacuum_score <= 700

\* The two agree while the z-score is not below -4.
MatchesReferenceAboveMinus4 ==
    lvPc = "done" /\ lvOut.volume_z >= -4000 =>
        lvOut.vacuum_score = ReferenceVacuumScore(lvOut.volume_z, bid_ask_spread_proxy)

\* 29 equal volumes and a lower newest one: z = -sqrt(29), score above 0.9.
VacuumAboveCap ==
    /\ lvPc = "done"
    /\ ~bid_ask_spread_proxy.given
    /\ last_volumes = Repeat(100, 29) \o <<10>>
    /\ lvOut.vacuum_score > 900

----------------------------------------------------------------------------
(* portfolio_stress.py: choice of the sensitivity multiplier.              *)

\* The multiplier, in tenths, that calculate_crisis_impact applies to the
\* holding `symbol` in the crisis of row c.
AppliedSensitivity(symbol, c) ==
    calculate_crisis_impact(symbol, HISTORICAL_CRISES[c], RInt(1)).sector_sensitivity

\* The multiplier of the documented rule: the crisis-specific entry of the
\* sector, else the sector's own default, and 1.0 for a sector without an
\* entry in SECTOR_SENSITIVITY.
DocumentedSensitivity(symbol, c) ==
    LET sector == get_stock_sector(symbol)
        id == HISTORICAL_CRISES[c].crisis_id
    IN  IF sector \notin SensitivitySectors THEN 10
        ELSE IF SectorEntry(sector, id) # 0 THEN SectorEntry(sector, id)
        ELSE SectorEntry(sector, "default")

\* C19: for every holding of a stress test and every crisis the multiplier
\* applied is the documented one.
C19_SensitivityChoice ==
    stressPc = "done" =>
        \A i \in 1..Len(symbols), c \in 1..Len(HISTORICAL_CRISES) :
            AppliedSensitivity(symbols[i], c) = DocumentedSensitivity(symbols[i], c)

\* The rule is followed for every holding whose sector has an entry.
SensitivityChoiceKnownSector ==
    stressPc = "done" =>
        \A i \in 1..Len(symbols), c \in 1..Len(HISTORICAL_CRISES) :
            get_stock_sector(symbols[i]) \in SensitivitySectors =>
                AppliedSensitivity(symbols[i], c) = DocumentedSensitivity(symbols[i], c)

\* A holding without a sector entry gets the fmcg default 0.7 in every crisis.
UnknownSectorGetsFmcg ==
    stressPc = "done" =>
        \A i \in 1..Len(symbols), c \in 1..Len(HISTORICAL_CRISES) :
            get_stock_sector(symbols[i]) \notin SensitivitySectors =>
                AppliedSensitivity(symbols[i], c) = 7

(***************************************************************************)
(* danger_zones.compute_danger_zones: pivots, high-volume events and the    *)
(* volatility-spike flag of one series.  Prices are integers; the ATR is   *)
(* in thousandths as in market_weather.                                    *)
(***************************************************************************)
MaxDangerBars == 61

NoPayload == [kind |-> "None"]

\* The rows whose centred 5-row window is complete and whose value is the
\* window's extreme: rolling(5, center=True).apply(x[2] == x.max()).
PivotHighs(d) ==
    SelectSeq([i \in 1..Len(d) |-> i],
              LAMBDA i : /\ i >= 3 /\ i + 2 <= Len(d)
                         /\ \A j \in (i - 2)..(i + 2) : d[j].high <= d[i].high)
PivotLows(d) ==
    SelectSeq([i \in 1..Len(d) |-> i],
              LAMBDA i : /\ i >= 3 /\ i + 2 <= Len(d)
                         /\ \A j \in (i - 2)..(i + 2) : d[j].low >= d[i].low)

\* The last five pivot highs, then the last five pivot lows, as zones.
pivot_support_resistance(d) ==
    LET res == TailN(PivotHighs(d), 5)
        sup == TailN(PivotLows(d), 5)
    IN  [k \in 1..Len(res) |-> [type |-> "resistance", level |-> d[res[k]].high]]
        \o [k \in 1..Len(sup) |-> [type |-> "support", level |-> d[sup[k]].low]]

\* Rows of the last 60 whose volume exceeds three times the 20-row rolling
\* mean volume; the mean is NaN, and the comparison false, before row 20.
high_volume_events(d) ==
    SelectSeq([i \in 1..Len(d) |-> i],
              LAMBDA i : /\ i > Len(d) - 60
                         /\ i >= 20
                         /\ 20 * d[i].volume >
                                3 * SumSeq([k \in 1..20 |-> d[i - 20 + k].volume]))

\* mean of |high - low| over the last n rows, as sum and count.
BarRangeMean(d, n) ==
    LET t == TailN(d, n)
    IN  [sum |-> SumSeq([i \in 1..Len(t) |-> Abs(t[i].high - t[i].low)]),
         count |-> Len(t)]

\* a > b * 1.6 for two means given as sum and count.
Exceeds16(a, b) == a.sum * b.count * 10 > 16 * b.sum * a.count

\* recent_atr > long_atr * 1.6; the long mean is the recent one below 60 rows.
VolSpike(d) ==
    LET recent_atr == BarRangeMean(d, 14)
        long_atr == IF Len(d) >= 60 THEN BarRangeMean(d, 60) ELSE recent_atr
    IN  Exceeds16(recent_atr, long_atr)

\* compute_danger_zones on the fetched frame d: None for an empty frame or
\* when a step raises (a pivot level of zero divides by zero).
compute_danger_zones(d) ==
    IF d = <<>> THEN NoPayload
    ELSE LET zones == pivot_support_resistance(d)
             latest_price == d[Len(d)].close
         IN  IF \E k \in 1..Len(zones) : zones[k].level = 0 THEN NoPayload
             ELSE [kind |-> "payload",
                   price |-> latest_price,
                   atr |-> average_true_range(d, 14),
                   volatility_spike |-> VolSpike(d),
                   support_resistance |-> zones,
                   high_volume_events |-> high_volume_events(d),
                   danger_windows |->
                       SelectSeq(zones,
                                 LAMBDA z : Abs(latest_price - z.level) * 100 < z.level)]

DangerBarKinds ==
    {Bar(100, 100, 100, 100, 10),     \* no range
     Bar(100, 101, 99, 100, 10),      \* calm
     Bar(100, 110, 90, 100, 10),      \* wide range
     Bar(120, 120, 120, 120, 100)}    \* no range, away from 100, heavy volume

\* Series of one kind followed by 14, 3 or 1 bars of another, alternating
\* series, and series whose last 14 bars alternate.
DangerInputs ==
    {SegSeries(n, n - k, a, b) : n \in 0..MaxDangerBars, k \in {1, 3, 14},
                                 a \in DangerBarKinds, b \in DangerBarKinds}
    \cup {AltSeries(n, a, b) : n \in 0..MaxDangerBars,
                               a \in DangerBarKinds, b \in DangerBarKinds}
    \cup {[i \in 1..n |-> IF i <= n - 14 THEN c
                          ELSE IF i % 2 = 0 THEN a ELSE b] :
              n \in 14..MaxDangerBars, a \in DangerBarKinds,
              b \in DangerBarKinds, c \in DangerBarKinds}

DangerInit ==
    /\ ohlcv \in DangerInputs
    /\ dzPc = "call" /\ dzOut = "none"
    /\ mwPc = "idle" /\ mwOut = "none"
    /\ rePc = "idle" /\ reOut = "none"

DangerZonesCall ==
    /\ dzPc = "call"
    /\ dzOut' = compute_danger_zones(ohlcv)
    /\ dzPc' = "done"
    /\ UNCHANGED <<ohlcv, mwPc, mwOut, rePc, reOut>>
    /\ UNCHANGED exceptWeather

InitDanger == DangerInit /\ CoreIdle /\ FillIdle /\ VacuumIdle /\ SentimentIdle /\ ServicesIdle
NextDanger == DangerZonesCall
SpecDanger == InitDanger /\ [][NextDanger]_vars

\* The n-bar average true range of market_weather.average_true_range, as sum
\* and count: the mean of the last n true ranges, or the last true range
\* when there are fewer than n bars.
TrueRangeAverage(d, n) ==
    LET tr == [i \in 1..Len(d) |-> true_range(d, i)]
    IN  IF Len(d) >= n THEN [sum |-> SumSeq(TailN(tr, n)), count |-> n]
        ELSE [sum |-> tr[Len(d)], count |-> 1]

TrueRangeSpike(d) == Exceeds16(TrueRangeAverage(d, 14), TrueRangeAverage(d, 60))

\* C20: volatility_spike is true exactly when the 14-bar average true
\* range exceeds 1.6 times the 60-bar average true range, for every series.
C20_SpikeIffTrueRangeAtr ==
    (dzPc = "done" /\ dzOut.kind = "payload") =>
        (dzOut.volatility_spike <=> TrueRangeSpike(ohlcv))

\* The same restricted to series of at least 60 bars, where both averages
\* are full windows.
SpikeIffTrueRangeAtrFrom60Bars ==
    (dzPc = "done" /\ dzOut.kind = "payload" /\ Len(ohlcv) >= 60) =>
        (dzOut.volatility_spike <=> TrueRangeSpike(ohlcv))

\* With fewer than 60 bars the flag is never set.
NoSpikeBelow60Bars ==
    (dzPc = "done" /\ dzOut.kind = "payload" /\ Len(ohlcv) < 60) =>
        ~dzOut.volatility_spike

\* On series of at least 60 bars in which every bar's range covers the
\* previous close the flag is the true-range one.
SpikeIffTrueRangeAtrWithoutGaps ==
    (/\ dzPc = "done" /\ dzOut.kind = "payload" /\ Len(ohlcv) >= 60
     /\ \A i \in 1..Len(ohlcv) :
            true_range(ohlcv, i) = Abs(ohlcv[i].high - ohlcv[i].low)) =>
        (dzOut.volatility_spike <=> TrueRangeSpike(ohlcv))

\* A frame with bars always yields a payload; an empty one yields None.
PayloadIffBars ==
    dzPc = "done" => (dzOut.kind = "payload" <=> ohlcv # <<>>)

(***************************************************************************)
(* fetch_stock_data: the waits between attempts.                           *)
(***************************************************************************)
\* A wait of w seconds was made.
Waited(w) == \E j \in 1..Len(sleeps) : sleeps[j] = w

\* C24: every retry is preceded by a wait; the wait after the k-th failed
\* attempt is k x RETRY_DELAY seconds, whatever made the attempt fail.
C24_LinearBackoffBeforeEveryRetry ==
    \A k \in 1..Len(attemptLog) :
        k < Len(attemptLog) => Waited(k * RETRY_DELAY)

\* The wait is made after an attempt that raised, when another follows.
BackoffAfterException ==
    \A k \in 1..Len(attemptLog) :
        (attemptLog[k].kind = "raise" /\ k < MAX_RETRIES) => Waited(k * RETRY_DELAY)

\* No wait follows an attempt that came back empty or without a required
\* column, nor the last attempt.
NoBackoffAfterEmptyOrMissing ==
    \A k \in 1..Len(attemptLog) :
        (attemptLog[k].kind = "frame" \/ k = MAX_RETRIES) => ~Waited(k * RETRY_DELAY)

(***************************************************************************)
(* market_weather.compute_market_weather: the final risk score.            *)
(***************************************************************************)
\* clamp(0.4 * storm + 0.3 * vacuum + 0.3 * dzi, 0, 1) in thousandths.
ReferenceFinalRisk(storm, vacuum, dzi) ==
    Max2(0, Min2(1000, (4 * storm + 3 * vacuum + 3 * dzi) \div 10))

\* The score is a number in [0,1].
FinalRiskInUnitRange ==
    (mwPc = "done" /\ mwOut.kind = "snapshot") =>
        /\ ~mwOut.final_risk_score.nan
        /\ mwOut.final_risk_score.v \in 0..1000

\* The score is the clamped blend of the storm and vacuum components (to a
\* thousandth); a NaN storm probability gives 0.
FinalRiskIsStormVacuumBlend ==
    (mwPc = "done" /\ mwOut.kind = "snapshot") =>
        LET storm == mwOut.storm_probability.storm_probability
            vac == mwOut.vacuum.vacuum_score
        IN  IF storm.nan THEN mwOut.final_risk_score = Num(0)
            ELSE Abs(mwOut.final_risk_score.v - ReferenceFinalRisk(storm.v, vac, 0)) <= 1

\* The danger-zone index is None in every snapshot.
DziAlwaysNone ==
    (mwPc = "done" /\ mwOut.kind = "snapshot") => mwOut.dzi_score = "None"

\* C23: final_risk_score is the clamped blend 0.4 storm + 0.3 vacuum + 0.3
\* danger-zone index, lies in [0,1], and each component is taken from its
\* model: the danger-zone module is present, so the snapshot carries its
\* index.
C23_FinalRiskBlendsThreeModels ==
    /\ FinalRiskInUnitRange
    /\ FinalRiskIsStormVacuumBlend
    /\ (mwPc = "done" /\ mwOut.kind = "snapshot") => mwOut.dzi_score # "None"

(***************************************************************************)
(* market_weather.compute_market_weather with the two risk models as       *)
(* parameters of the call: liquidity_vacuum_score and storm_probability    *)
(* are module-level names bound by guarded imports, and the stage uses     *)
(* whatever they return.                                                   *)
(***************************************************************************)
MaxRiskBars == 16

RiskFrames ==
    {AltSeries(n, a, b) : n \in 0..MaxRiskBars,
                          a \in WeatherBarKinds, b \in WeatherBarKinds}

\* What the vacuum model may hand back: its own result, None when the
\* import failed, other scores, and a dict without the score.
VacuumModelReturns(d) ==
    {liquidity_vacuum_score(TailN(Column(d, "volume"), 30), NoSpread),
     NoneField,
     [vacuum_score |-> 0, volume_z |-> 0, spread_proxy |-> 0],
     [vacuum_score |-> 1000, volume_z |-> -6000, spread_proxy |-> 0],
     [volume_z |-> 0, spread_proxy |-> 0]}

StormModelReturns(d) ==
    {storm_probability(TailN(Column(d, "close"), 50), 5, 5),
     NoneField,
     [storm_probability |-> Num(1000), loss_threshold |-> 5, horizon |-> 5],
     [storm_probability |-> NaN, loss_threshold |-> 5, horizon |-> 5],
     [loss_threshold |-> 5, horizon |-> 5]}

RiskInit ==
    /\ ohlcv \in RiskFrames
    /\ mwPc = "call" /\ mwOut = "none"
    /\ rePc = "idle" /\ reOut = "none"
    /\ dzPc = "idle" /\ dzOut = "none"

\* One call of compute_market_weather with some pair of model results.
RiskStageCall ==
    /\ mwPc = "call"
    /\ \E vacuum \in VacuumModelReturns(ohlcv), storm \in StormModelReturns(ohlcv) :
            mwOut' = IF ohlcv = <<>> THEN NoSnapshot
                     ELSE RiskStage(BaseSnapshot(ohlcv), vacuum, storm)
    /\ mwPc' = "done"
    /\ UNCHANGED <<ohlcv, rePc, reOut, dzPc, dzOut>>
    /\ UNCHANGED exceptWeather

InitRisk == RiskInit /\ CoreIdle /\ FillIdle /\ VacuumIdle /\ SentimentIdle /\ ServicesIdle
NextRisk == RiskStageCall
SpecRisk == InitRisk /\ [][NextRisk]_vars

\* C30: the risk-model stage only adds fields: price, atr, volatility,
\* momentum, liquidity, safety_score, recommendation and meta are those of
\* the base snapshot whatever the models returned, and when the final
\* aggregation raises, final_risk_score is None and the snapshot is still
\* returned.
C30_RiskStageOnlyAdds ==
    (mwPc = "done" /\ ohlcv # <<>>) =>
        /\ mwOut.kind = "snapshot"
        /\ \A f \in DOMAIN BaseSnapshot(ohlcv) : mwOut[f] = BaseSnapshot(ohlcv)[f]
        /\ AggregationRaises(mwOut.vacuum, mwOut.storm_probability) =>
                mwOut.final_risk_score = NoneField
        /\ ~AggregationRaises(mwOut.vacuum, mwOut.storm_probability) =>
                mwOut.final_risk_score # NoneField

C30_Witness ==
    /\ mwPc = "done" /\ Len(ohlcv) >= 15
    /\ mwOut.kind = "snapshot"
    /\ mwOut.vacuum # NoneField /\ "vacuum_score" \notin DOMAIN mwOut.vacuum
    /\ mwOut.final_risk_score = NoneField
    /\ mwOut.recommendation = "bullish"

(***************************************************************************)
(* execution/engine.py: ExecutionEngine.  positions is the engine's dict   *)
(* (a symbol without a key counts as 0); orders counts the calls of        *)
(* broker.place_order; filled is the signed sum, per symbol, of the        *)
(* quantities of the signals that returned status "ok".  A call is made   *)
(* of the steps between which another thread may run: the limit check,     *)
(* the broker call, the read and the write of positions[symbol].           *)
(***************************************************************************)
MaxCalls == 3

max_position_per_symbol == 200

exceptEngine == <<coreVars, indicatorVars, propVars, manipVars, cacheVars, wrapVars>>

EngineThreads == {1, 2}
EngineSymbols == {"NIFTY", "BANKNIFTY"}
SignalQuantities == {50, 150, 250}
Signals ==
    [symbol : EngineSymbols, action : {"BUY", "SELL"}, qty : SignalQuantities]

\* self.positions.get(symbol, 0)
PositionOf(pos, symbol) == IF symbol \in DOMAIN pos THEN pos[symbol] ELSE 0

\* self.positions[symbol] = v
SetPosition_All(pos, symbol, v) == [k \in DOMAIN pos \cup {symbol} |-> v]
SetPosition(pos, symbol, v) ==
    [k \in DOMAIN pos \cup {symbol} |-> IF k = symbol THEN v ELSE pos[k]]

\* qty = int(signal["qty"]) if signal.get("action") == "BUY" else -int(signal["qty"])
SignedQty(signal) == IF signal.action = "BUY" THEN signal.qty ELSE -signal.qty

\* can_execute(symbol, qty)
can_execute_NoLimit(pos, symbol, qty) == TRUE
can_execute(pos, symbol, qty) ==
    ~(Abs(PositionOf(pos, symbol) + qty) > max_position_per_symbol)

NoCall == [status |-> "none"]

EngineInit ==
    /\ positions = <<>>
    /\ exPc = [t \in EngineThreads |-> "idle"]
    /\ exSignal = [t \in EngineThreads |-> NoCall]
    /\ exLocal = [t \in EngineThreads |-> 0]
    /\ exResult = [t \in EngineThreads |-> NoCall]
    /\ orders = 0
    /\ filled = <<>>
    /\ calls = 0

\* Thread t enters execute_signal(signal).
ExCall(t, signal) ==
    /\ exPc[t] = "idle"
    /\ calls < MaxCalls
    /\ calls' = calls + 1
    /\ exSignal' = [exSignal EXCEPT ![t] =
                        [signal |-> signal, before |-> positions, sent |-> orders]]
    /\ exPc' = [exPc EXCEPT ![t] = "check"]
    /\ UNCHANGED <<positions, exLocal, exResult, orders, filled>>
    /\ UNCHANGED exceptEngine

\* The call of t returns with the given status.
Returns(t, status, pos, ord) ==
    [status |-> status, signal |-> exSignal[t].signal,
     before |-> exSignal[t].before, sent |-> exSignal[t].sent,
     after |-> pos, sentAfter |-> ord]

\* if not self.can_execute(symbol, qty): return rejected
ExCheck(t) ==
    /\ exPc[t] = "check"
    /\ LET sig == exSignal[t].signal
       IN  IF can_execute(positions, sig.symbol, SignedQty(sig))
           THEN /\ exPc' = [exPc EXCEPT ![t] = "place"]
                /\ UNCHANGED exResult
           ELSE /\ exPc' = [exPc EXCEPT ![t] = "idle"]
                /\ exResult' = [exResult EXCEPT ![t] = Returns(t, "rejected", positions, orders)]
    /\ UNCHANGED <<positions, exSignal, exLocal, orders, filled, calls>>
    /\ UNCHANGED exceptEngine

\* self.broker.place_order(...): returns the response, or raises (no access
\* token, HTTP error, timeout) and the call returns status "error".
ExPlace(t) ==
    /\ exPc[t] = "place"
    /\ orders' = orders + 1
    /\ \E raised \in BOOLEAN :
        IF raised
        THEN /\ exPc' = [exPc EXCEPT ![t] = "idle"]
             /\ exResult' = [exResult EXCEPT ![t] = Returns(t, "error", positions, orders + 1)]
        ELSE /\ exPc' = [exPc EXCEPT ![t] = "read"]
             /\ UNCHANGED exResult
    /\ UNCHANGED <<positions, exSignal, exLocal, filled, calls>>
    /\ UNCHANGED exceptEngine

\* self.positions.get(symbol, 0) + qty
ExRead(t) ==
    /\ exPc[t] = "read"
    /\ LET sig == exSignal[t].signal
       IN  exLocal' = [exLocal EXCEPT ![t] =
                           PositionOf(positions, sig.symbol) + SignedQty(sig)]
    /\ exPc' = [exPc EXCEPT ![t] = "write"]
    /\ UNCHANGED <<positions, exSignal, exResult, orders, filled, calls>>
    /\ UNCHANGED exceptEngine

\* self.positions[symbol] = ...; return {"status": "ok", ...}
ExWrite(t) ==
    /\ exPc[t] = "write"
    /\ LET sig == exSignal[t].signal
       IN  /\ positions' = SetPosition(positions, sig.symbol, exLocal[t])
           /\ filled' = SetPosition(filled, sig.symbol,
                                    PositionOf(filled, sig.symbol) + SignedQty(sig))
    /\ exPc' = [exPc EXCEPT ![t] = "idle"]
    /\ exResult' = [exResult EXCEPT ![t] = Returns(t, "ok", positions', orders)]
    /\ UNCHANGED <<exSignal, exLocal, orders, calls>>
    /\ UNCHANGED exceptEngine

ExStep(t) ==
    \/ \E signal \in Signals : ExCall(t, signal)
    \/ ExCheck(t)
    \/ ExPlace(t)
    \/ ExRead(t)
    \/ ExWrite(t)

InitEngine == EngineInit /\ CoreIdle /\ IndicatorsIdle /\ PropIdle /\ ManipIdle /\ CacheIdle /\ WrapIdle

\* Calls made one at a time: a call starts only when no other is running.
NextEngine ==
    \E t \in EngineThreads :
        /\ \A u \in EngineThreads \ {t} : exPc[u] = "idle"
        /\ ExStep(t)
SpecEngine == InitEngine /\ [][NextEngine]_vars

\* Calls made by the threads concurrently.
NextEngineThreads == \E t \in EngineThreads : ExStep(t)
SpecEngineThreads == InitEngine /\ [][NextEngineThreads]_vars

AllIdle == \A t \in EngineThreads : exPc[t] = "idle"

\* C27: after any sequence of calls made one at a time, every tracked
\* position is within the limit and equals the signed sum of the quantities
\* of the signals that returned "ok".
C27_PositionWithinLimitAndSumOfOk ==
    AllIdle =>
        \A s \in EngineSymbols :
            /\ Abs(PositionOf(positions, s)) <= max_position_per_symbol
            /\ PositionOf(positions, s) = PositionOf(filled, s)

C27_Witness ==
    /\ AllIdle /\ calls = MaxCalls
    /\ PositionOf(positions, "NIFTY") = max_position_per_symbol
    /\ \E t \in EngineThreads : exResult[t].status = "rejected"

\* C28: with concurrent calls every interleaving leaves the position within
\* the limit and loses no update.
C28_ConcurrentWithinLimitNoLostUpdate ==
    AllIdle =>
        \A s \in EngineSymbols :
            /\ Abs(PositionOf(positions, s)) <= max_position_per_symbol
            /\ PositionOf(positions, s) = PositionOf(filled, s)

\* The limit alone, and the updates alone, under concurrent calls.
ConcurrentWithinLimit ==
    \A s \in EngineSymbols : Abs(PositionOf(positions, s)) <= max_position_per_symbol
ConcurrentNoLostUpdate ==
    AllIdle => \A s \in EngineSymbols : PositionOf(positions, s) = PositionOf(filled, s)

\* C29: a call rejected for the limit does not reach the broker and leaves
\* every position unchanged; a call whose place_order raises returns
\* "error" and leaves every position unchanged; a successful call changes
\* only the position of its own symbol.
C29_FrameOfExecuteSignal ==
    \A t \in EngineThreads :
        exResult[t].status # "none" =>
            LET r == exResult[t]
                own == r.signal.symbol
            IN  /\ r.status = "rejected" =>
                    /\ r.sentAfter = r.sent
                    /\ r.after = r.before
                /\ r.status = "error" =>
                    /\ r.sentAfter = r.sent + 1
                    /\ r.after = r.before
                /\ r.status = "ok" =>
                    /\ r.sentAfter = r.sent + 1
                    /\ \A s \in EngineSymbols \ {own} :
                            /\ PositionOf(r.after, s) = PositionOf(r.before, s)
                            /\ (s \in DOMAIN r.after) = (s \in DOMAIN r.before)
                    /\ PositionOf(r.after, own) =
                            PositionOf(r.before, own) + SignedQty(r.signal)
                /\ r.status \in {"rejected", "error", "ok"}
                /\ r.status = "rejected" <=>
                        ~can_execute(r.before, own, SignedQty(r.signal))

C29_Witness ==
    /\ AllIdle
    /\ exResult[1].status = "error"
    /\ exResult[2].status = "rejected"
    /\ PositionOf(positions, "NIFTY") = 150
    /\ orders = 2

(***************************************************************************)
(* core/decorators.py: a function behind robust_service.  wrapFunc is what *)
(* the wrapped function does when called: it returns a Result, returns     *)
(* another value, or raises an exception e.                                *)
(***************************************************************************)
MaxWrapValue == 10

exceptWrap == <<coreVars, indicatorVars, propVars, manipVars, cacheVars, engineVars>>

\* Return values that are not Results: None, numbers, frames of n rows.
PlainValues ==
    {[py |-> "None", n |-> 0]}
    \cup {[py |-> "int", n |-> k] : k \in 0..MaxWrapValue}
    \cup {[py |-> "DataFrame", n |-> k] : k \in 0..MaxWrapValue}

ExceptionClasses == {"ValueError", "KeyError", "RuntimeError", "ZeroDivisionError"}
ExceptionArgs == {<<>>, <<"">>, <<"close">>, <<"division by zero">>, <<"No access token">>}
Exceptions == [cls : ExceptionClasses, args : ExceptionArgs]

\* str(e): the argument, in quotes for a KeyError; empty without arguments.
StrOfException(e) ==
    IF e.args = <<>> THEN ""
    ELSE IF e.cls = "KeyError" THEN "'" \o e.args[1] \o "'"
    ELSE e.args[1]

WrappedBehaviours ==
    {ReturnedResult(Ok(v)) : v \in PlainValues}
    \cup {ReturnedResult(Fail(StrOfException(e))) : e \in Exceptions}
    \cup {Returned(v) : v \in PlainValues}
    \cup {[kind |-> "raise", isResult |-> FALSE, payload |-> StrOfException(e), e |-> e] :
            e \in Exceptions}

WrapInit ==
    /\ wrapFunc \in WrappedBehaviours
    /\ wrapPc = "call"
    /\ wrapOut = "none"

\* wrapper(*args, **kwargs)
WrapCall ==
    /\ wrapPc = "call"
    /\ wrapOut' = robust_service(wrapFunc)
    /\ wrapPc' = "returned"
    /\ UNCHANGED wrapFunc
    /\ UNCHANGED exceptWrap

InitWrap == WrapInit /\ CoreIdle /\ IndicatorsIdle /\ PropIdle /\ ManipIdle /\ CacheIdle /\ EngineIdle
NextWrap == WrapCall
SpecWrap == InitWrap /\ [][NextWrap]_vars

MaxManipLead == 21

exceptManip == <<coreVars, indicatorVars, propVars, cacheVars, wrapVars, engineVars>>

NoPattern == [detected |-> FALSE, confidence |-> Num(0)]

SeqMin(s) == CHOOSE x \in {s[i] : i \in 1..Len(s)} : \A i \in 1..Len(s) : x <= s[i]

\* detect_wash_trading: heavy volume in the last 10 bars on a narrow range.
detect_wash_trading(d) ==
    IF Len(d) < 10 THEN NoPattern
    ELSE
    LET recent == TailN(d, 10)
        spread == SeqMax(Column(recent, "high")) - SeqMin(Column(recent, "low"))
        closeSum == SumSeq(Column(recent, "close"))
        recentVol == SumSeq(Column(recent, "volume"))
        allVol == SumSeq(Column(d, "volume"))
        \* volume_intensity > 1.5 and price_range < 0.02
        intense == allVol > 0 /\ 2 * recentVol * Len(d) > 30 * allVol
        narrow == spread * 500 < closeSum
    IN  IF intense /\ narrow
        THEN LET volume_intensity == (recentVol * Len(d) * 100) \div allVol
                 price_range == (spread * 1000000) \div closeSum
                 wash_score == ((volume_intensity - 1000) * (3000 - price_range)) \div 1000
             IN  [detected |-> TRUE, confidence |-> PyMin(Num(1000), Num(wash_score))]
        ELSE NoPattern

\* detect_ladder_attack: mostly lower closes in the last 10 bars, a decline
\* of more than 5%, and less volume on the down bars than on the others.
detect_ladder_attack(d) ==
    IF Len(d) < 10 THEN NoPattern
    ELSE
    LET recent == TailN(d, 10)
        down == {i \in 2..10 : recent[i].close < recent[i - 1].close}
        up == (2..10) \ down
        lower_count == Cardinality(down)
        downVol == SumSeq([i \in 1..10 |-> IF i \in down THEN recent[i].volume ELSE 0])
        upVol == SumSeq([i \in 1..10 |-> IF i \in up THEN recent[i].volume ELSE 0])
        first == recent[1].close
        last == recent[10].close
        \* lower_ratio > 0.7 and price_decline > 0.05
        laddered == lower_count * 10 > 63 /\ (first - last) * 20 > first
        \* vol_ratio = avg_down_vol / avg_up_vol if avg_up_vol > 0 else 1
        thin == /\ up # {} /\ upVol > 0
                /\ 5 * downVol * Cardinality(up) < 4 * lower_count * upVol
    IN  IF laddered /\ thin
        THEN LET vol_ratio == (downVol * Cardinality(up) * 1000) \div (lower_count * upVol)
                 price_decline == ((first - last) * 1000) \div first
                 confidence == (lower_count * (1000 - vol_ratio) * price_decline * 10)
                                   \div 9000
             IN  [detected |-> TRUE, confidence |-> PyMin(Num(1000), Num(confidence))]
        ELSE NoPattern

\* A bar's upper and lower wick over its range + 0.001, in thousandths.
HighWick(b) == ((b.high - Max2(b.open, b.close)) * 10000) \div ((b.high - b.low) * 10 + 1)
LowWick(b) == ((Min2(b.open, b.close) - b.low) * 10000) \div ((b.high - b.low) * 10 + 1)

\* detect_spoofing: long wicks in the last 5 bars.
detect_spoofing(d) ==
    IF Len(d) < 5 THEN NoPattern
    ELSE
    LET recent == TailN(d, 5)
        avg_wick == (SumSeq([i \in 1..5 |-> HighWick(recent[i])]) \div 5
                     + SumSeq([i \in 1..5 |-> LowWick(recent[i])]) \div 5) \div 2
    IN  IF avg_wick > 400
        THEN [detected |-> TRUE,
              confidence |-> PyMin(Num(1000), Num((avg_wick - 300) * 3))]
        ELSE NoPattern

\* score -> level; the score is total_risk / 2 capped at 1, kept here in
\* units of 1/2000 so that the halving is exact.
ManipRiskLevel_Shifted(score) ==
    IF score > 1400 THEN "CRITICAL"
    ELSE IF score > 1000 THEN "HIGH"
    ELSE IF score > 400 THEN "ELEVATED"
    ELSE "LOW"
ManipRiskLevel(score) ==
    IF score > 1400 THEN "CRITICAL"
    ELSE IF score > 800 THEN "HIGH"
    ELSE IF score > 400 THEN "ELEVATED"
    ELSE "LOW"

\* analyze_manipulation_patterns on the frame d that _fetch_ohlcv returned.
analyze_manipulation_patterns(d) ==
    IF d = <<>> THEN NoneField
    ELSE
    LET checks == <<[pattern |-> "PUMP_AND_DUMP",
                     detected |-> detect_pump_and_dump(d).detected,
                     confidence |-> detect_pump_and_dump(d).confidence],
                    [pattern |-> "WASH_TRADING",
                     detected |-> detect_wash_trading(d).detected,
                     confidence |-> detect_wash_trading(d).confidence],
                    [pattern |-> "LADDER_ATTACK",
                     detected |-> detect_ladder_attack(d).detected,
                     confidence |-> detect_ladder_attack(d).confidence],
                    [pattern |-> "SPOOFING",
                     detected |-> detect_spoofing(d).detected,
                     confidence |-> detect_spoofing(d).confidence]>>
        patterns_detected == SelectSeq(checks, LAMBDA c : c.detected)
        total_risk == SumSeq([i \in 1..Len(patterns_detected) |->
                                  patterns_detected[i].confidence.v])
        manipulation_risk == Min2(2000, total_risk)
    IN  [kind |-> "report",
         price |-> d[Len(d)].close,
         patterns_detected |-> patterns_detected,
         patterns_count |-> Len(patterns_detected),
         manipulation_risk |-> [score |-> manipulation_risk,
                                level |-> ManipRiskLevel(manipulation_risk)],
         individual_checks |-> checks]

\* The last 10 bars of a series: the close path (flat, or a stair down with
\* two small rebounds), the wicks of the last 5 bars and the volume pattern.
TailClose(path, i) ==
    IF path = "flat" THEN 10000
    ELSE 10000 - 100 * (i - 1) + (IF i >= 4 THEN 150 ELSE 0) + (IF i >= 8 THEN 150 ELSE 0)
TailVolume(vol, path, i) ==
    CASE vol = "normal" -> 1000
      [] vol = "heavy" -> 3000
      [] vol = "thin-down" -> IF path = "stair" /\ i \in {4, 8} THEN 2000 ELSE 500
TailBar(path, wick, body, vol, i) ==
    LET c == TailClose(path, i)
        w == IF i > 5 THEN wick ELSE 0
        b == IF i > 5 THEN body ELSE 0
    IN  Bar(c - b, c + w, c - b - w, c, TailVolume(vol, path, i))

WithWicks(d, wick) ==
    [i \in 1..Len(d) |->
        IF i > Len(d) - 5
        THEN Bar(d[i].open, d[i].high + wick, d[i].low - wick, d[i].close, d[i].volume)
        ELSE d[i]]

\* Quiet bars, 5 bars rising 30% on heavy volume, then 10 bars stepping down
\* on thin volume with two rebounds.
PumpThenStair(lead) ==
    [i \in 1..lead |-> Bar(10000, 10000, 10000, 10000, 100)]
    \o [j \in 1..5 |-> Bar(10000 + 600 * j, 10000 + 600 * j, 10000 + 600 * j,
                           10000 + 600 * j, 4000)]
    \o [i \in 1..10 |->
            LET c == 13000 - 250 * i + (IF i >= 4 THEN 350 ELSE 0)
                                     + (IF i >= 8 THEN 350 ELSE 0)
            IN  Bar(c, c, c, c, IF i \in {4, 8} THEN 4000 ELSE 500)]

ManipInputs ==
    {Repeat(FlatBar, lead) \o [i \in 1..10 |-> TailBar(path, wick, body, vol, i)] :
        lead \in {0, 5, MaxManipLead}, path \in {"flat", "stair"},
        wick \in {0, 1, 5, 50}, body \in {0, 1, 10},
        vol \in {"normal", "heavy", "thin-down"}}
    \cup {WithWicks(PumpSeries(lead, rise, 12, vm, "sequel"), wick) :
            lead \in {0, 5, MaxManipLead}, rise \in {5, 15, 40},
            vm \in {1, 3, 4}, wick \in {0, 5, 50}}
    \cup {WithWicks(PumpThenStair(lead), wick) :
            lead \in {0, 5, 15, MaxManipLead}, wick \in {0, 5, 50}}
    \cup {HeadN(Repeat(FlatBar, 9), n) : n \in 0..9}

ManipInit ==
    /\ mpDf \in ManipInputs
    /\ mpPc = "call"
    /\ mpOut = "none"

ManipCall ==
    /\ mpPc = "call"
    /\ mpOut' = analyze_manipulation_patterns(mpDf)
    /\ mpPc' = "done"
    /\ UNCHANGED mpDf
    /\ UNCHANGED exceptManip

InitManip == ManipInit /\ CoreIdle /\ IndicatorsIdle /\ PropIdle /\ CacheIdle /\ WrapIdle /\ EngineIdle
NextManip == ManipCall
SpecManip == InitManip /\ [][NextManip]_vars

\* Sum of the confidences of the detectors whose detected flag is true, in
\* thousandths.
FiredConfidence(report) ==
    SumSeq([i \in 1..4 |->
        IF report.individual_checks[i].detected
        THEN report.individual_checks[i].confidence.v ELSE 0])
FiredCount(report) ==
    Cardinality({i \in 1..4 : report.individual_checks[i].detected})

\* C22: score = min(1, sum of the fired detectors' confidences / 2), in
\* [0,1]; CRITICAL above 0.7, HIGH above 0.4, ELEVATED above 0.2, else LOW;
\* patterns_count is the number of detectors that fired; none fired gives
\* score 0 and LOW.
C22_ManipulationRiskScore ==
    (mpPc = "done" /\ mpOut.kind = "report") =>
        LET score == mpOut.manipulation_risk.score
            level == mpOut.manipulation_risk.level
        IN  /\ score = Min2(2000, FiredConfidence(mpOut))
            /\ score \in 0..2000
            /\ \A i \in 1..4 : ~mpOut.individual_checks[i].confidence.nan
            /\ level = (IF score > 1400 THEN "CRITICAL"
                        ELSE IF score > 800 THEN "HIGH"
                        ELSE IF score > 400 THEN "ELEVATED" ELSE "LOW")
            /\ mpOut.patterns_count = FiredCount(mpOut)
            /\ FiredCount(mpOut) = 0 => score = 0 /\ level = "LOW"

C22_Witness ==
    /\ mpPc = "done" /\ mpOut.kind = "report"
    /\ mpOut.patterns_count = 3
    /\ FiredConfidence(mpOut) > 2000
    /\ mpOut.manipulation_risk.score = 2000
    /\ mpOut.manipulation_risk.level = "CRITICAL"

(***************************************************************************)
(* stress_propagation.analyze_stress_propagation.  A return series is a    *)
(* function from its timestamps (consecutive integers) to returns, in      *)
(* units of one step; correlations are kept exact as [s, d] with           *)
(* corr = s / sqrt(d).  The report modelled is propagation_chains and      *)
(* vulnerability; stress_analysis depends on the target alone.             *)
(***************************************************************************)
MaxLag == 5
MaxReturns == 12

exceptProp == <<coreVars, indicatorVars, manipVars, cacheVars, wrapVars, engineVars>>

ReferenceSources == <<"VIX", "S&P 500", "NIFTY 50">>

\* Pearson correlation of the pairs <<x, y>> in the sequence ps: NaN for fewer
\* than 2 pairs or a constant side.
Pearson(ps) ==
    LET n == Len(ps)
        sx == SumSeq([i \in 1..n |-> ps[i][1]])
        sy == SumSeq([i \in 1..n |-> ps[i][2]])
        sxy == SumSeq([i \in 1..n |-> ps[i][1] * ps[i][2]])
        sxx == SumSeq([i \in 1..n |-> ps[i][1] * ps[i][1]])
        syy == SumSeq([i \in 1..n |-> ps[i][2] * ps[i][2]])
        vx == n * sxx - sx * sx
        vy == n * syy - sy * sy
    IN  IF n < 2 \/ vx = 0 \/ vy = 0 THEN [nan |-> TRUE, s |-> 0, d |-> 1]
        ELSE [nan |-> FALSE, s |-> n * sxy - sx * sy, d |-> vx * vy]

ZeroCorr == [nan |-> FALSE, s |-> 0, d |-> 1]

\* abs(a) > abs(b); false when either is NaN.
AbsGreater(a, b) == ~a.nan /\ ~b.nan /\ a.s * a.s * b.d > b.s * b.s * a.d
\* abs(c) > p / q
AbsAbove(c, p, q) == ~c.nan /\ q * q * c.s * c.s > p * p * c.d
SameCorr(a, b) ==
    \/ a.nan /\ b.nan
    \/ /\ ~a.nan /\ ~b.nan
       /\ (a.s > 0) = (b.s > 0) /\ (a.s < 0) = (b.s < 0)
       /\ a.s * a.s * b.d = b.s * b.s * a.d

\* The timestamps of a series in increasing order.
IndexOf(series) ==
    LET RECURSIVE Sorted(_)
        Sorted(S) == IF S = {} THEN <<>>
                     ELSE LET m == CHOOSE x \in S : \A y \in S : x <= y
                          IN  <<m>> \o Sorted(S \ {m})
    IN  Sorted(DOMAIN series)

\* target_returns.index.intersection(ref_returns.index), in order
CommonIndex(target, ref) ==
    SelectSeq(IndexOf(target), LAMBDA t : t \in DOMAIN ref)

\* leader.iloc[:-lag].corr(follower.iloc[lag:]) (leader.corr(follower) for
\* lag 0): Series.corr joins the two slices on their timestamps, so the
\* pairs are the values at the timestamps present in both slices.
SliceCorr(leader, follower, idx, lag) ==
    LET n == Len(idx)
        both == SelectSeq(idx, LAMBDA t :
                    \E i \in 1..n : idx[i] = t /\ i <= n - lag /\ i > lag)
    IN  IF lag = 0 THEN Pearson([i \in 1..n |-> <<leader[idx[i]], follower[idx[i]]>>])
        ELSE Pearson([i \in 1..Len(both) |-> <<leader[both[i]], follower[both[i]]>>])

\* calculate_lead_lag_correlation: the loop over lag = 0..max_lag.
RECURSIVE LeadLagFrom(_, _, _, _, _)
LeadLagFrom(leader, follower, idx, lag, best) ==
    IF lag > MaxLag THEN best
    ELSE LET corr == SliceCorr(leader, follower, idx, lag)
         IN  LeadLagFrom(leader, follower, idx, lag + 1,
                         IF AbsGreater(corr, best.corr)
                         THEN [lag |-> lag, corr |-> corr] ELSE best)
calculate_lead_lag_correlation(leader, follower, idx) ==
    LeadLagFrom(leader, follower, idx, 0, [lag |-> 0, corr |-> ZeroCorr])

Strength(corr) ==
    IF AbsAbove(corr, 5, 10) THEN "strong"
    ELSE IF AbsAbove(corr, 3, 10) THEN "moderate" ELSE "weak"

MinOverlap(idx) == Len(idx) > 10

\* The chain entry for one reference, <<>> when it is skipped: the lag
\* search for VIX and S&P 500, the plain correlation for the Nifty.
ChainFor(source, target, ref) ==
    IF ref = <<>> THEN <<>>
    ELSE LET idx == CommonIndex(target, ref)
         IN  IF ~MinOverlap(idx) THEN <<>>
             ELSE LET found == IF source = "NIFTY 50"
                               THEN [lag |-> 0, corr |-> SliceCorr(target, ref, idx, 0)]
                               ELSE calculate_lead_lag_correlation(ref, target, idx)
                  IN  <<[source |-> source, lag_days |-> found.lag,
                         correlation |-> found.corr,
                         strength |-> Strength(found.corr)]>>

\* analyze_stress_propagation: target and refs are the return series of the
\* target and of the three references (<<>>: no data).
analyze_stress_propagation(target, refs) ==
    IF target = <<>> THEN NoneField
    ELSE LET propagation_chains ==
                 ChainFor("VIX", target, refs[1])
                 \o ChainFor("S&P 500", target, refs[2])
                 \o ChainFor("NIFTY 50", target, refs[3])
             strong == Len(SelectSeq(propagation_chains, LAMBDA c : c.strength = "strong"))
         IN  [kind |-> "report",
              propagation_chains |-> propagation_chains,
              vulnerability |-> [num |-> strong,
                                 den |-> Max2(1, Len(propagation_chains))]]

\* A fixed irregular sequence of steps.
Wave == <<1, -1, 0, 1, 1, -1, 0, -1, 1, 0, -1, -1, 1, 0, 1, -1, 1, 1, 0, -1, 1, -1, -1, 0>>

\* The target's returns at timestamps 1..MaxReturns.
TargetReturns == [t \in 1..MaxReturns |-> Wave[t + MaxLag]]

\* A reference that the target follows `lead` bars later (with the given
\* sign), known from timestamp `first` on; a flat reference; no data.
LeadingReference(lead, sign, first) ==
    [t \in first..MaxReturns |-> sign * Wave[t + MaxLag + lead]]
ReferenceSeries ==
    {<<>>}
    \cup {LeadingReference(lead, sign, first) :
            lead \in {0, 1, 2, MaxLag}, sign \in {1, -1}, first \in {1, 3}}
    \cup {[t \in 1..MaxReturns |-> 0]}

PropInit ==
    /\ spTarget \in {TargetReturns, <<>>}
    /\ spRefs \in [1..3 -> ReferenceSeries]
    /\ spPc = "call"
    /\ spOut = "none"

PropCall ==
    /\ spPc = "call"
    /\ spOut' = analyze_stress_propagation(spTarget, spRefs)
    /\ spPc' = "done"
    /\ UNCHANGED <<spTarget, spRefs>>
    /\ UNCHANGED exceptProp

InitProp == PropInit /\ CoreIdle /\ IndicatorsIdle /\ ManipIdle /\ CacheIdle /\ WrapIdle /\ EngineIdle
NextProp == PropCall
SpecProp == InitProp /\ [][NextProp]_vars

\* The correlation between the reference shifted back by lag and the
\* target: reference at the i-th common timestamp against target at the
\* (i + lag)-th.
ShiftedCorr(ref, target, idx, lag) ==
    Pearson([i \in 1..(Len(idx) - lag) |-> <<ref[idx[i]], target[idx[i + lag]]>>])

\* lag is the smallest lag in 0..5 that maximizes the absolute shifted
\* correlation.
IsBestLag(ref, target, idx, lag) ==
    /\ ~ShiftedCorr(ref, target, idx, lag).nan
    /\ \A k \in 0..MaxLag :
        /\ ~AbsGreater(ShiftedCorr(ref, target, idx, k), ShiftedCorr(ref, target, idx, lag))
        /\ k < lag => AbsGreater(ShiftedCorr(ref, target, idx, lag),
                                 ShiftedCorr(ref, target, idx, k))
                      \/ ShiftedCorr(ref, target, idx, k).nan

ChainOf(report, source) ==
    SelectSeq(report.propagation_chains, LAMBDA c : c.source = source)

\* C21: for each reference with more than 10 common timestamps the report
\* has lag_days = the smallest lag in 0..5 maximizing the absolute
\* correlation between the shifted reference and the target, and
\* correlation = the correlation at that lag; vulnerability is the fraction
\* of relationships with |correlation| > 0.5, in [0,1].
C21_BestLagAndVulnerability ==
    (spPc = "done" /\ spOut.kind = "report") =>
        /\ \A k \in 1..3 :
            LET ref == spRefs[k]
                idx == IF ref = <<>> THEN <<>> ELSE CommonIndex(spTarget, ref)
                chain == ChainOf(spOut, ReferenceSources[k])
            IN  (ref # <<>> /\ Len(idx) > 10) =>
                    /\ Len(chain) = 1
                    /\ \A lag \in 0..MaxLag :
                        IsBestLag(ref, spTarget, idx, lag) =>
                            /\ chain[1].lag_days = lag
                            /\ SameCorr(chain[1].correlation,
                                        ShiftedCorr(ref, spTarget, idx, lag))
        /\ spOut.vulnerability.num =
                Len(SelectSeq(spOut.propagation_chains,
                              LAMBDA c : AbsAbove(c.correlation, 5, 10)))
        /\ spOut.vulnerability.num <= spOut.vulnerability.den

\* Chains are reported exactly for the references with more than 10 common
\* timestamps, and vulnerability is the fraction of strong chains.
ChainsAndVulnerability ==
    (spPc = "done" /\ spOut.kind = "report") =>
        /\ \A k \in 1..3 :
            Len(ChainOf(spOut, ReferenceSources[k])) =
                (IF spRefs[k] # <<>> /\ Len(CommonIndex(spTarget, spRefs[k])) > 10
                 THEN 1 ELSE 0)
        /\ spOut.vulnerability.num =
                Len(SelectSeq(spOut.propagation_chains,
                              LAMBDA c : AbsAbove(c.correlation, 5, 10)))
        /\ spOut.vulnerability.num <= spOut.vulnerability.den
        /\ spOut.vulnerability.den = Max2(1, Len(spOut.propagation_chains))

\* The claim holds for a reference that the target follows without delay.
BestLagRightWithoutDelay ==
    (spPc = "done" /\ spOut.kind = "report") =>
        \A k \in 1..3 :
            LET ref == spRefs[k]
                idx == IF ref = <<>> THEN <<>> ELSE CommonIndex(spTarget, ref)
                chain == ChainOf(spOut, ReferenceSources[k])
            IN  (ref # <<>> /\ Len(idx) > 10 /\ IsBestLag(ref, spTarget, idx, 0)) =>
                    /\ chain[1].lag_days = 0
                    /\ SameCorr(chain[1].correlation, ShiftedCorr(ref, spTarget, idx, 0))

\* The Nifty entry always has lag 0.
NiftyLagAlwaysZero ==
    (spPc = "done" /\ spOut.kind = "report") =>
        \A i \in 1..Len(spOut.propagation_chains) :
            spOut.propagation_chains[i].source = "NIFTY 50" =>
                spOut.propagation_chains[i].lag_days = 0

(***************************************************************************)
(* resources/market.py, MarketWeatherResource.get: the market-weather      *)
(* endpoint with its cache.  The cache maps a key to [value, expires]; an  *)
(* entry is live while expires > now.  A request is one step; the clock    *)
(* advances between requests.  A snapshot is tagged with the triple and    *)
(* the time it was computed for.                                           *)
(***************************************************************************)
CacheTimeout == 60
ClockStep == 30
MaxClock == 60
MaxRequests == 3

exceptCache == <<coreVars, indicatorVars, propVars, manipVars, wrapVars, engineVars>>

MwSymbols == {"", "AAPL"}
MwPeriods == {"60d", "5d", "60d:1d"}
MwIntervals == {"1d", "1d:1d"}

\* The provider (yfinance) has no data for a period or an interval outside
\* its fixed lists; for the others data may or may not be available.
ProviderPeriods == {"60d", "5d"}
ProviderIntervals == {"1d"}
ProviderKnows(period, interval) ==
    period \in ProviderPeriods /\ interval \in ProviderIntervals

\* cache_key = f"market_weather:{symbol}:{period}:{interval}"
CacheKey_NoPeriod(symbol, period, interval) ==
    "market_weather:" \o symbol \o ":" \o interval
CacheKey(symbol, period, interval) ==
    "market_weather:" \o symbol \o ":" \o period \o ":" \o interval

Live(entry, t) == entry.expires > t

\* cache.get(key): the value of a live entry, None otherwise.
CacheGet(store, key, t) ==
    IF key \in DOMAIN store /\ Live(store[key], t) THEN store[key].value ELSE NoneField

\* cache.set(key, value, timeout=timeout)
CacheSet(store, key, value, timeout, t) ==
    [k \in DOMAIN store \cup {key} |->
        IF k = key THEN [value |-> value, expires |-> t + timeout] ELSE store[k]]

Snapshot(symbol, period, interval, t) ==
    [kind |-> "snapshot", symbol |-> symbol, period |-> period,
     interval |-> interval, asof |-> t]

Response(status, body) == [kind |-> "response", status |-> status, body |-> body]

CacheInit ==
    /\ cacheStore = <<>>
    /\ now = 0
    /\ hasPersist \in BOOLEAN     \* whether the snapshot model could be imported
    /\ persisted = <<>>
    /\ computations = <<>>
    /\ mwRequest = [kind |-> "none", n |-> 0]
    /\ mwResponse = [kind |-> "none"]

\* One GET /market/weather.  getRaises, setRaises, commitRaises: whether
\* cache.get, cache.set and db.session.commit raise; hasData: whether the
\* provider returns bars.
MarketWeatherGet ==
    /\ mwRequest.n < MaxRequests
    /\ \E symbol \in MwSymbols, period \in MwPeriods, interval \in MwIntervals,
          getRaises \in BOOLEAN, setRaises \in BOOLEAN, commitRaises \in BOOLEAN,
          hasData \in BOOLEAN :
        LET cache_key == CacheKey(symbol, period, interval)
            cached == IF getRaises THEN NoneField ELSE CacheGet(cacheStore, cache_key, now)
            result == IF hasData /\ ProviderKnows(period, interval)
                      THEN Snapshot(symbol, period, interval, now) ELSE NoneField
        IN  /\ mwRequest' = [kind |-> "request", n |-> mwRequest.n + 1, at |-> now,
                             symbol |-> symbol, period |-> period, interval |-> interval,
                             cache_get_raises |-> (symbol # "" /\ getRaises)]
            /\ IF symbol = ""
               THEN /\ mwResponse' = Response(400, NoneField)
                    /\ UNCHANGED <<cacheStore, persisted, computations>>
               ELSE IF cached # NoneField
               THEN /\ mwResponse' = Response(200, cached)
                    /\ UNCHANGED <<cacheStore, persisted, computations>>
               ELSE /\ computations' = Append(computations, <<symbol, period, interval>>)
                    /\ IF result = NoneField
                       THEN /\ mwResponse' = Response(503, NoneField)
                            /\ UNCHANGED <<cacheStore, persisted>>
                       ELSE /\ persisted' = IF hasPersist /\ ~commitRaises
                                            THEN Append(persisted, result) ELSE persisted
                            /\ cacheStore' = IF setRaises THEN cacheStore
                                             ELSE CacheSet(cacheStore, cache_key, result,
                                                           CacheTimeout, now)
                            /\ mwResponse' = Response(200, result)
    /\ UNCHANGED <<now, hasPersist>>
    /\ UNCHANGED exceptCache

Tick ==
    /\ now + ClockStep <= MaxClock
    /\ now' = now + ClockStep
    /\ UNCHANGED <<cacheStore, hasPersist, persisted, computations, mwRequest, mwResponse>>
    /\ UNCHANGED exceptCache

InitCache == CacheInit /\ CoreIdle /\ IndicatorsIdle /\ PropIdle /\ ManipIdle /\ WrapIdle /\ EngineIdle
NextCache == MarketWeatherGet \/ Tick
SpecCache == InitCache /\ [][NextCache]_vars

TripleOf(r) == <<r.symbol, r.period, r.interval>>

\* The live entry of the triple of request r in the store, None if none.
LiveEntryFor(store, r, t) ==
    LET k == "market_weather:" \o r.symbol \o ":" \o r.period \o ":" \o r.interval
    IN  IF k \in DOMAIN store /\ store[k].expires > t THEN store[k].value ELSE NoneField

IsRequestStep == mwRequest'.n = mwRequest.n + 1 /\ mwRequest'.symbol # ""

\* A request whose triple has a live entry returns it, computes nothing and
\* persists nothing.
HitReturnsEntry ==
    (IsRequestStep /\ LiveEntryFor(cacheStore, mwRequest', now) # NoneField) =>
        /\ mwResponse' = Response(200, LiveEntryFor(cacheStore, mwRequest', now))
        /\ computations' = computations
        /\ persisted' = persisted
        /\ cacheStore' = cacheStore

\* The same when the cache could be read.
ReadableHitReturnsEntry ==
    (IsRequestStep /\ ~mwRequest'.cache_get_raises) => HitReturnsEntry

\* When the read raises the request is served as a miss: it computes.
UnreadableIsMiss ==
    (IsRequestStep /\ mwRequest'.cache_get_raises) =>
        computations' = Append(computations, TripleOf(mwRequest'))

\* The store changes only in a step that computed a snapshot, and the entry
\* written is that snapshot under the key of the request, living 60 s.
WriteOnlyAfterComputation ==
    cacheStore' # cacheStore =>
        /\ computations' = Append(computations, TripleOf(mwRequest'))
        /\ mwResponse'.status = 200
        /\ cacheStore' = CacheSet(cacheStore,
                                  CacheKey(mwRequest'.symbol, mwRequest'.period,
                                           mwRequest'.interval),
                                  mwResponse'.body, 60, now)

\* Every entry is a snapshot (never None) of the triple of its key, expiring
\* 60 s after it was computed.
EntriesAreOwnSnapshots ==
    \A k \in DOMAIN cacheStore :
        LET e == cacheStore[k]
        IN  /\ e.value.kind = "snapshot"
            /\ k = "market_weather:" \o e.value.symbol \o ":" \o e.value.period
                       \o ":" \o e.value.interval
            /\ e.expires = e.value.asof + 60

\* A 200 response carries a snapshot of the requested triple, no older than
\* 60 s at the time of the request.
ResponseIsForRequestedTriple ==
    (mwResponse.kind = "response" /\ mwResponse.status = 200) =>
        /\ mwResponse.body.kind = "snapshot"
        /\ TripleOf(mwResponse.body) = TripleOf(mwRequest)
        /\ mwResponse.body.asof + 60 > mwRequest.at

CacheStateInv == EntriesAreOwnSnapshots /\ ResponseIsForRequestedTriple

CollidingTriplesNeverCached ==
    \A s \in MwSymbols, p1 \in MwPeriods, p2 \in MwPeriods,
       i1 \in MwIntervals, i2 \in MwIntervals :
        (<<p1, i1>> # <<p2, i2>> /\ CacheKey(s, p1, i1) = CacheKey(s, p2, i2)) =>
            CacheKey(s, p1, i1) \notin DOMAIN cacheStore

====
